---- MODULE Spec2Model ----
(***************************************************************************)
(* Instrument signature removal (ip_isr): the stage functions of           *)
(* IsrStages.py (provenance markers in the Exposure metadata), the plain   *)
(* functions of Isr.py (no markers) and the orchestrator IsrStage.process. *)
(*                                                                         *)
(* Images are one row of pixels.  Pixel values are exact rationals <<n,d>> *)
(* (floating-point rounding is not modelled).  A mask pixel is the set of  *)
(* the mask-plane names whose bit is set.                                  *)
(***************************************************************************)
EXTENDS Integers, Sequences, FiniteSets, TLC

\* --------------------------------------------------------------- bounds
\* number of stage calls explored in one behaviour
MaxCalls == 3
\* calls are explored on Exposures whose pixel values, as fractions, have
\* numerator and denominator within this size: repeated division by a frame
\* squares the values
MaxPixel == 100

\* ------------------------------------------------- exact pixel arithmetic
Abs(x) == IF x < 0 THEN -x ELSE x

RECURSIVE Gcd(_, _)
Gcd(a, b) == IF b = 0 THEN a ELSE Gcd(b, a % b)

\* the rational n/d in lowest terms with a positive denominator (d # 0)
Rat(n, d) ==
  LET g == Gcd(Abs(n), Abs(d))
      s == IF d < 0 THEN -1 ELSE 1
  IN  <<(s * n) \div g, (s * d) \div g>>

R(n) == <<n, 1>>
\* sums over the least common denominator and products with the common factors
\* taken out first, to keep the integers small
RAdd(a, b) ==
  LET g == Gcd(a[2], b[2])
  IN  Rat(a[1] * (b[2] \div g) + b[1] * (a[2] \div g), (a[2] \div g) * b[2])
RSub(a, b) == RAdd(a, <<-b[1], b[2]>>)
RMul(a, b) ==
  LET g == Gcd(Abs(a[1]), b[2])
      h == Gcd(Abs(b[1]), a[2])
  IN  Rat((a[1] \div g) * (b[1] \div h), (a[2] \div h) * (b[2] \div g))
\* b # 0
RDiv(a, b) == Rat(a[1] * b[2], a[2] * b[1])
RLess(a, b) == a[1] * b[2] < b[1] * a[2]
RGeq(a, b) == ~RLess(a, b)
RIsZero(a) == a[1] = 0
\* int(x): truncation towards zero
RTrunc(a) == IF a[1] >= 0 THEN a[1] \div a[2] ELSE -((-a[1]) \div a[2])

RECURSIVE SumSeq(_)
SumSeq(s) == IF s = <<>> THEN R(0) ELSE RAdd(s[1], SumSeq(Tail(s)))

\* afwMath.makeStatistics(image, afwMath.MEAN)
StatMean(s) == RDiv(SumSeq(s), R(Len(s)))

\* number of elements of s strictly below / equal to v
CountLess(s, v) == Cardinality({i \in 1..Len(s) : RLess(s[i], v)})
CountEq(s, v) == Cardinality({i \in 1..Len(s) : s[i] = v})
\* the k-th smallest element of s (1-based)
KthSmallest(s, k) ==
  CHOOSE v \in {s[i] : i \in 1..Len(s)} :
    CountLess(s, v) < k /\ k <= CountLess(s, v) + CountEq(s, v)

\* afwMath.makeStatistics(image, afwMath.MEDIAN): the middle element, or the
\* mean of the two middle elements of an even number of pixels
StatMedian(s) ==
  LET n == Len(s)
  IN  IF n % 2 = 1 THEN KthSmallest(s, (n + 1) \div 2)
      ELSE RDiv(RAdd(KthSmallest(s, n \div 2), KthSmallest(s, n \div 2 + 1)), R(2))

\* ------------------------------------------------------ metadata values
\* a metadata slot is <<>> when the key does not exist and <<v>> when it does
Absent == <<>>
Present(v) == <<v>>
exists(md, k) == md[k] # Absent
get(md, k) == md[k][1]

\* ------------------------------------------------------------- geometry
\* pixels of one raw amplifier row: the data section, then the overscan strip
RawWidth == 5
\* pixels of the data section (the trim section)
DataWidth == 2

\* a FITS section [startCol:endCol], 1-based and inclusive, as kept in metadata
TrimsecString == <<1, DataWidth>>
OverscanString == <<DataWidth + 1, RawWidth>>

\* isrLib.BBoxFromDatasec: the 0-based box of a FITS section
BBoxFromDatasec(string) ==
  LET startCol == string[1] - 1
  IN  [x0 |-> startCol, width |-> string[2] - startCol]

\* the pixels of plane p inside bbox (an Image(parent, bbox) sub-image)
SubPlane(p, bbox) == [i \in 1..bbox.width |-> p[bbox.x0 + i]]
BBoxInside(bbox, p) == bbox.x0 >= 0 /\ bbox.width >= 1 /\ bbox.x0 + bbox.width <= Len(p)

\* ----------------------------------------------------------- metadata keys
\* isrLib.ISR_*: the stage signatures
ISR_LIN == "ISR_LIN"
ISR_OSCAN == "ISR_OSCAN"
ISR_TRIM == "ISR_TRIM"
ISR_SAT == "ISR_SAT"
ISR_BIAS == "ISR_BIAS"
ISR_DARK == "ISR_DARK"
ISR_DFLAT == "ISR_DFLAT"
ISR_ILLUM == "ISR_ILLUM"
ISR_BADP == "ISR_BADP"
ISR_CRREJ == "ISR_CRREJ"
StageSigs == {ISR_LIN, ISR_OSCAN, ISR_TRIM, ISR_SAT, ISR_BIAS, ISR_DARK,
              ISR_DFLAT, ISR_ILLUM, ISR_BADP, ISR_CRREJ}

\* the physical keys the policy names
PhysKeys == {"gain", "EXPTIME", "overscan", "trimsec", "saturate", "filename",
             "MEANCOUNTS", "FLATSCALE", "ILLUMSCALE"}
MetaKeys == StageSigs \cup PhysKeys

EmptyMetadata == [k \in MetaKeys |-> Absent]
\* a setString that loses another entry of the metadata
setString_dropsFilename(md, k, v) ==
  [md EXCEPT ![k] = Present(v), !["filename"] = Absent]

setString(md, k, v) == [md EXCEPT ![k] = Present(v)]
remove(md, k) == [md EXCEPT ![k] = Absent]

\* '%s; %s' % (stageSummary, time.asctime())
Marker_noTimestamp(stageSummary, asctime) == <<stageSummary>>

Marker(stageSummary, asctime) == <<stageSummary, "; ", asctime>>

\* ------------------------------------------------------ the image library
\* lsst.afw.image MaskedImage arithmetic as the stages call it.  `mi` and `rhs`
\* carry image, mask and variance planes; pixel dimensions must agree.
SameDimensions(mi, rhs) == Len(mi.image) = Len(rhs.image)
Pixels(mi) == 1..Len(mi.image)

\* a write to one plane.  `shared` says the image and variance planes are one
\* pixel buffer (a shallow copy): a write to either shows in both.
SetImage(mi, image) ==
  IF mi.shared THEN [mi EXCEPT !.image = image, !.variance = image]
  ELSE [mi EXCEPT !.image = image]
SetVariance(mi, variance) ==
  IF mi.shared THEN [mi EXCEPT !.image = variance, !.variance = variance]
  ELSE [mi EXCEPT !.variance = variance]
OrMask(mi, rhs) == [mi EXCEPT !.mask = [i \in Pixels(mi) |-> mi.mask[i] \cup rhs.mask[i]]]

\* mi -= rhs  (MaskedImage): image -= rhs.image, mask |= rhs.mask,
\* variance += rhs.variance
MaskedImageMinus(mi, rhs) ==
  LET a == SetImage(mi, [i \in Pixels(mi) |-> RSub(mi.image[i], rhs.image[i])])
      b == OrMask(a, rhs)
  IN  SetVariance(b, [i \in Pixels(mi) |-> RAdd(b.variance[i], rhs.variance[i])])

\* mi -= offset  (scalar): only the image plane is written
MaskedImageMinusScalar(mi, offset) ==
  SetImage(mi, [i \in Pixels(mi) |-> RSub(mi.image[i], offset)])

scaledMinus_unsquared(mi, c, rhs) ==
  LET a == SetImage(mi, [i \in Pixels(mi) |-> RSub(mi.image[i], RMul(c, rhs.image[i]))])
      b == OrMask(a, rhs)
  IN  SetVariance(b, [i \in Pixels(mi) |-> RAdd(b.variance[i], RMul(c, rhs.variance[i]))])

\* mi.scaledMinus(c, rhs): image -= c*rhs.image, mask |= rhs.mask,
\* variance += c*c*rhs.variance
scaledMinus(mi, c, rhs) ==
  LET a == SetImage(mi, [i \in Pixels(mi) |-> RSub(mi.image[i], RMul(c, rhs.image[i]))])
      b == OrMask(a, rhs)
  IN  SetVariance(b, [i \in Pixels(mi) |->
                        RAdd(b.variance[i], RMul(RMul(c, c), rhs.variance[i]))])

\* the variance of lhs/(c*rhs) from the planes before the division:
\* (var(lhs)*rhs^2 + var(rhs)*lhs^2) / (c^2 * rhs^4)
scaledDivideVariance(c, lhs, rhs, varLhs, varRhs) ==
  RDiv(RAdd(RMul(varLhs, RMul(rhs, rhs)), RMul(varRhs, RMul(lhs, lhs))),
       RMul(RMul(c, c), RMul(RMul(rhs, rhs), RMul(rhs, rhs))))

\* mi.scaledDivides(c, rhs): the variance is propagated first, from the values
\* before the division, then image /= c*rhs.image and mask |= rhs.mask
\* (rhs.image # 0)
scaledDivides(mi, c, rhs) ==
  LET a == SetVariance(mi, [i \in Pixels(mi) |->
                 scaledDivideVariance(c, mi.image[i], rhs.image[i],
                                      mi.variance[i], rhs.variance[i])])
      b == SetImage(a, [i \in Pixels(mi) |-> RDiv(a.image[i], RMul(c, rhs.image[i]))])
  IN  OrMask(b, rhs)

\* ------------------------------------------------------------ stage results
\* what a call did: it returned after doing its work, returned at once because
\* the marker was there, or raised.  `exposure` is the Exposure afterwards.
Returned(e) == [outcome |-> "returned", exposure |-> e]
Skipped(e) == [outcome |-> "skipped", exposure |-> e]
Raised(e) == [outcome |-> "raised", exposure |-> e]

\* a correction with a calibration frame: `frame` is the frame afterwards.  The
\* library takes the right-hand side of -=, scaledMinus and scaledDivides as a
\* constant: the frame a stage passes comes back as it went in.
WithFrame(result, frame) ==
  [outcome |-> result.outcome, exposure |-> result.exposure, frame |-> frame]

\* '%.2f' % x: x in hundredths, rounded half up (x >= 0)
Fmt2(x) == (2 * 100 * x[1] + x[2]) \div (2 * x[2])

\* =================================================== IsrStages.py: stages
\* Every stage takes the Exposure, its calibration input, the policy and the
\* reading of the clock that time.asctime() gives if the marker is written.

\* ---- bias
BiasCorrection_noMarkerTest(exposure, bias, policy, asctime) ==
  LET metadata == exposure.metadata
      bmetadata == bias.metadata
      filenameKeyword == policy.filenameKeyword
      meanCountsKeyword == policy.biasPolicy.meanCountsKeyword
      result ==
        IF ~exists(bmetadata, filenameKeyword) THEN Raised(exposure)
          ELSE IF ~exists(bmetadata, meanCountsKeyword) THEN Raised(exposure)
          ELSE IF ~SameDimensions(exposure, bias) THEN Raised(exposure)
          ELSE LET mi == MaskedImageMinus(exposure, bias)
                   stageSummary == <<"using", get(bmetadata, filenameKeyword),
                                     "with mean=", Fmt2(get(bmetadata, meanCountsKeyword))>>
               IN  Returned([mi EXCEPT !.metadata =
                       setString(metadata, ISR_BIAS, Marker(stageSummary, asctime))])
  IN  WithFrame(result, bias)

BiasCorrection(exposure, bias, policy, asctime) ==
  LET metadata == exposure.metadata
      bmetadata == bias.metadata
      filenameKeyword == policy.filenameKeyword
      meanCountsKeyword == policy.biasPolicy.meanCountsKeyword
      result ==
        IF exists(metadata, ISR_BIAS) THEN Skipped(exposure)
          ELSE IF ~exists(bmetadata, filenameKeyword) THEN Raised(exposure)
          ELSE IF ~exists(bmetadata, meanCountsKeyword) THEN Raised(exposure)
          ELSE IF ~SameDimensions(exposure, bias) THEN Raised(exposure)
          ELSE LET mi == MaskedImageMinus(exposure, bias)
                   stageSummary == <<"using", get(bmetadata, filenameKeyword),
                                     "with mean=", Fmt2(get(bmetadata, meanCountsKeyword))>>
               IN  Returned([mi EXCEPT !.metadata =
                       setString(metadata, ISR_BIAS, Marker(stageSummary, asctime))])
  IN  WithFrame(result, bias)

\* ---- dark
DarkScale_inverted(expscaling, darkscaling) == RDiv(darkscaling, expscaling)

DarkScale(expscaling, darkscaling) == RDiv(expscaling, darkscaling)

DarkCorrection(exposure, dark, policy, asctime) ==
  LET metadata == exposure.metadata
      dmetadata == dark.metadata
      filenameKeyword == policy.filenameKeyword
      scalingKeyword == policy.darkPolicy.darkScaleKeyword
      result ==
        IF exists(metadata, ISR_DARK) THEN Skipped(exposure)
          ELSE IF ~exists(dmetadata, filenameKeyword) THEN Raised(exposure)
          ELSE IF ~exists(metadata, scalingKeyword) THEN Raised(exposure)
          ELSE IF ~exists(dmetadata, scalingKeyword) THEN Raised(exposure)
          \* expscaling / darkscaling: ZeroDivisionError
          ELSE IF RIsZero(get(dmetadata, scalingKeyword)) THEN Raised(exposure)
          ELSE IF ~SameDimensions(exposure, dark) THEN Raised(exposure)
          ELSE LET scale == DarkScale(get(metadata, scalingKeyword),
                                      get(dmetadata, scalingKeyword))
                   mi == scaledMinus(exposure, scale, dark)
                   stageSummary == <<"using", get(dmetadata, filenameKeyword),
                                     "with scale=", Fmt2(scale)>>
               IN  Returned([mi EXCEPT !.metadata =
                       setString(metadata, ISR_DARK, Marker(stageSummary, asctime))])
  IN  WithFrame(result, dark)

\* ---- flat: the scale is the value recorded in the flat's own metadata
FlatCorrection(exposure, flat, policy, asctime) ==
  LET metadata == exposure.metadata
      fmetadata == flat.metadata
      filenameKeyword == policy.filenameKeyword
      scalingKeyword == policy.flatPolicy.flatScaleKeyword
      result ==
        IF exists(metadata, ISR_DFLAT) THEN Skipped(exposure)
          ELSE IF ~exists(fmetadata, filenameKeyword) THEN Raised(exposure)
          ELSE IF ~exists(fmetadata, scalingKeyword) THEN Raised(exposure)
          \* 1./flatscaling: ZeroDivisionError
          ELSE IF RIsZero(get(fmetadata, scalingKeyword)) THEN Raised(exposure)
          ELSE IF ~SameDimensions(exposure, flat) THEN Raised(exposure)
          ELSE LET flatscaling == get(fmetadata, scalingKeyword)
                   mi == scaledDivides(exposure, RDiv(R(1), flatscaling), flat)
                   stageSummary == <<"using", get(fmetadata, filenameKeyword),
                                     "with scale=", Fmt2(flatscaling)>>
               IN  Returned([mi EXCEPT !.metadata =
                       setString(metadata, ISR_DFLAT, Marker(stageSummary, asctime))])
  IN  WithFrame(result, flat)

\* ---- illumination
IlluminationCorrection(exposure, illum, policy, asctime) ==
  LET metadata == exposure.metadata
      imetadata == illum.metadata
      filenameKeyword == policy.filenameKeyword
      scalingKeyword == policy.illuminationPolicy.illumScaleKeyword
      result ==
        IF exists(metadata, ISR_ILLUM) THEN Skipped(exposure)
          ELSE IF ~exists(imetadata, filenameKeyword) THEN Raised(exposure)
          ELSE IF ~exists(imetadata, scalingKeyword) THEN Raised(exposure)
          ELSE IF RIsZero(get(imetadata, scalingKeyword)) THEN Raised(exposure)
          ELSE IF ~SameDimensions(exposure, illum) THEN Raised(exposure)
          ELSE LET illumscaling == get(imetadata, scalingKeyword)
                   mi == scaledDivides(exposure, RDiv(R(1), illumscaling), illum)
                   stageSummary == <<"using", get(imetadata, filenameKeyword),
                                     "with scale=", Fmt2(illumscaling)>>
               IN  Returned([mi EXCEPT !.metadata =
                       setString(metadata, ISR_ILLUM, Marker(stageSummary, asctime))])
  IN  WithFrame(result, illum)

\* ---- Exposure construction
\* afwImage.ExposureF(exposure, bbox): the part of every plane inside the box,
\* with the metadata object of the parent
SubExposure_imageOnly(exposure, bbox, metadata, xy0) ==
  [image |-> SubPlane(exposure.image, bbox),
   mask |-> exposure.mask,
   variance |-> exposure.variance,
   metadata |-> metadata,
   maskPlaneDict |-> exposure.maskPlaneDict,
   xy0 |-> xy0,
   shared |-> exposure.shared]

SubExposure(exposure, bbox, metadata, xy0) ==
  [image |-> SubPlane(exposure.image, bbox),
   mask |-> SubPlane(exposure.mask, bbox),
   variance |-> SubPlane(exposure.variance, bbox),
   metadata |-> metadata,
   maskPlaneDict |-> exposure.maskPlaneDict,
   xy0 |-> xy0,
   shared |-> exposure.shared]

\* the mask planes every new Mask knows
DefaultMaskPlanes == {"BAD", "SAT", "INTRP", "CR", "EDGE", "DETECTED"}

\* no Exposure: Python's None, or a name not yet bound
None == <<>>
Some(e) == <<e>>

\* IsrStages.ExposureFromInputData(image, metadata): an empty mask, the variance a
\* deep copy of the image divided by the gain.  The function never hands the
\* metadata to the Exposure; `carried` is the metadata the image library gives
\* the new Exposure (empty, or the input's when the loader attached it).
ExposureFromInputData_gainSquared(image, metadata, carried) ==
  IF ~exists(metadata, "gain") THEN Raised(None)
  ELSE LET gain == get(metadata, "gain")
           variance == [i \in 1..Len(image) |-> RDiv(image[i], RMul(gain, gain))]
       IN  Returned(Some([image |-> image,
                          mask |-> [i \in 1..Len(image) |-> {}],
                          variance |-> variance,
                          metadata |-> carried,
                          maskPlaneDict |-> DefaultMaskPlanes,
                          xy0 |-> 0, shared |-> FALSE]))

ExposureFromInputData(image, metadata, carried) ==
  IF ~exists(metadata, "gain") THEN Raised(None)
  ELSE LET gain == get(metadata, "gain")
           variance == [i \in 1..Len(image) |-> RDiv(image[i], gain)]
       IN  Returned(Some([image |-> image,
                          mask |-> [i \in 1..Len(image) |-> {}],
                          variance |-> variance,
                          metadata |-> carried,
                          maskPlaneDict |-> DefaultMaskPlanes,
                          xy0 |-> 0, shared |-> FALSE]))

\* ---- overscan
OverscanOffset_alwaysMean(overscanData, overscanFitType) == StatMean(overscanData)

OverscanOffset(overscanData, overscanFitType) ==
  IF overscanFitType = "MEAN" THEN StatMean(overscanData) ELSE StatMedian(overscanData)

OverscanCorrection_defaultsToMean(exposure, policy, asctime) ==
  LET metadata == exposure.metadata
      overscanKeyword == policy.overscanPolicy.overscanKeyword
      overscanFitType == policy.overscanPolicy.overscanFitType
  IN  IF exists(metadata, ISR_OSCAN) THEN Skipped(exposure)
      ELSE IF ~exists(metadata, overscanKeyword) THEN Raised(exposure)
      ELSE LET overscan == get(metadata, overscanKeyword)
               overscanBBox == BBoxFromDatasec(overscan)
           IN  IF ~BBoxInside(overscanBBox, exposure.image) THEN Raised(exposure)
               ELSE LET overscanData == SubPlane(exposure.image, overscanBBox)
                        offset == OverscanOffset(overscanData, overscanFitType)
                        mi == MaskedImageMinusScalar(exposure, offset)
                        stageSummary == <<"using overscan section", overscan,
                                          "with", overscanFitType, "=", offset>>
                    IN  Returned([mi EXCEPT !.metadata =
                            setString(metadata, ISR_OSCAN, Marker(stageSummary, asctime))])

OverscanCorrection(exposure, policy, asctime) ==
  LET metadata == exposure.metadata
      overscanKeyword == policy.overscanPolicy.overscanKeyword
      overscanFitType == policy.overscanPolicy.overscanFitType
  IN  IF exists(metadata, ISR_OSCAN) THEN Skipped(exposure)
      ELSE IF ~exists(metadata, overscanKeyword) THEN Raised(exposure)
      ELSE LET overscan == get(metadata, overscanKeyword)
               overscanBBox == BBoxFromDatasec(overscan)
           IN  IF ~BBoxInside(overscanBBox, exposure.image) THEN Raised(exposure)
               ELSE IF overscanFitType \in {"MEAN", "MEDIAN"}
               THEN LET overscanData == SubPlane(exposure.image, overscanBBox)
                        offset == OverscanOffset(overscanData, overscanFitType)
                        mi == MaskedImageMinusScalar(exposure, offset)
                        stageSummary == <<"using overscan section", overscan,
                                          "with", overscanFitType, "=", offset>>
                    IN  Returned([mi EXCEPT !.metadata =
                            setString(metadata, ISR_OSCAN, Marker(stageSummary, asctime))])
               \* 'POLY': not implemented; anything else: an invalid overscan type
               ELSE Raised(exposure)

\* a trim call that raised: nothing is returned; `error` is the exception
TrimRaised(exposure, error) ==
  [outcome |-> "raised", exposure |-> exposure, value |-> None, box |-> None,
   error |-> error]

\* ---- trim: `value` is what the call returns (`box` its box in the input),
\* `exposure` the input Exposure afterwards.  The returned Exposure is a shallow sub-Exposure (deep = False):
\* it shares the input's metadata, so it shows the marker written after it
\* was made.
TrimNew(exposure, policy, asctime) ==
  LET metadata == exposure.metadata
      trimsecKeyword == policy.trimPolicy.trimsecKeyword
  IN  IF exists(metadata, ISR_TRIM)
      THEN [outcome |-> "skipped", exposure |-> exposure, value |-> None, box |-> None,
            error |-> "none"]
      ELSE IF ~exists(metadata, trimsecKeyword)
      THEN TrimRaised(exposure, "NotFoundException")
      ELSE LET trimsec == get(metadata, trimsecKeyword)
               trimsecBBox == BBoxFromDatasec(trimsec)
           IN  IF ~BBoxInside(trimsecBBox, exposure.image)
               THEN TrimRaised(exposure, "LengthErrorException")
               ELSE LET stageSummary == <<"using trimsec", trimsec>>
                        marked == setString(metadata, ISR_TRIM,
                                            Marker(stageSummary, asctime))
                        trimmedExposure ==
                          SubExposure(exposure, trimsecBBox, marked,
                                      exposure.xy0 + trimsecBBox.x0)
                    IN  [outcome |-> "returned",
                         exposure |-> [exposure EXCEPT !.metadata = marked],
                         value |-> Some(trimmedExposure), box |-> Some(trimsecBBox),
                         error |-> "none"]

\* ---- the detection and interpolation collaborators (meas.algorithms, afw.detection)
\* FootprintSet(mi, Threshold(t)): the pixels at or above the threshold
AboveThreshold(image, threshold) == {i \in 1..Len(image) : RGeq(image[i], threshold)}

GrowPixels_notGrown(image, pixels, n) == pixels

\* growFootprint(fp, n, False) over every footprint: the pixels within n of one
GrowPixels(image, pixels, n) ==
  {i \in 1..Len(image) : \E j \in pixels : Abs(i - j) <= n}

\* the value interpolated for pixel i of plane p from the nearest pixels outside
\* `bad` on either side; <<>> when there is none
Interpolated(p, bad, i) ==
  LET lefts == {j \in 1..Len(p) : j < i /\ j \notin bad}
      rights == {j \in 1..Len(p) : j > i /\ j \notin bad}
      left == CHOOSE j \in lefts : \A k \in lefts : k <= j
      right == CHOOSE j \in rights : \A k \in rights : k >= j
  IN  IF lefts # {} /\ rights # {} THEN <<RDiv(RAdd(p[left], p[right]), R(2))>>
      ELSE IF lefts # {} THEN <<p[left]>>
      ELSE IF rights # {} THEN <<p[right]>>
      ELSE <<>>

\* algorithms.interpolateOverDefects(mi, psf, defectList[, fallbackValue]):
\* `fallback` is <<>> when the caller passes none; a pixel with nothing to
\* interpolate from takes the fallback value, or keeps its value without one
interpolateOverDefects(mi, bad, fallback) ==
  LET fill(p, i) ==
        IF Interpolated(p, bad, i) # <<>> THEN Interpolated(p, bad, i)[1]
        ELSE IF fallback # <<>> THEN fallback[1]
        ELSE p[i]
      a == SetImage(mi, [i \in Pixels(mi) |-> IF i \in bad THEN fill(mi.image, i)
                                               ELSE mi.image[i]])
      b == SetVariance(a, [i \in Pixels(mi) |-> IF i \in bad THEN fill(a.variance, i)
                                                 ELSE a.variance[i]])
  IN  [b EXCEPT !.mask = [i \in Pixels(mi) |-> IF i \in bad THEN mi.mask[i] \cup {"INTRP"}
                                                ELSE mi.mask[i]]]

setMaskFromFootprint_overwrites(mi, pixels, maskName) ==
  [mi EXCEPT !.mask = [i \in Pixels(mi) |-> IF i \in pixels THEN {maskName}
                                             ELSE mi.mask[i]]]

\* afwDetection.setMaskFromFootprint over a set of pixels: OR the plane's bit in
setMaskFromFootprint(mi, pixels, maskName) ==
  [mi EXCEPT !.mask = [i \in Pixels(mi) |-> IF i \in pixels THEN mi.mask[i] \cup {maskName}
                                             ELSE mi.mask[i]]]

\* ---- saturation
SaturationCorrection(exposure, policy, interpolate, asctime) ==
  LET metadata == exposure.metadata
      satKeyword == policy.saturationPolicy.saturationKeyword
      \* try: metadata.getDouble(satKeyword)  except: the policy's default
      saturation == IF exists(metadata, satKeyword) THEN get(metadata, satKeyword)
                    ELSE policy.saturationPolicy.defaultSaturation
      growSaturated == policy.saturationPolicy.growSaturated
  IN  IF exists(metadata, ISR_SAT) THEN Skipped(exposure)
      \* mask.getPlaneBitMask(maskName)
      ELSE IF "SAT" \notin exposure.maskPlaneDict THEN Raised(exposure)
      ELSE LET fpList == AboveThreshold(exposure.image, saturation)
               fpGrow == GrowPixels(exposure.image, fpList, growSaturated)
               masked == setMaskFromFootprint(exposure, fpGrow, "SAT")
               mi == IF interpolate
                     THEN [interpolateOverDefects(masked, fpGrow, <<>>)
                             EXCEPT !.maskPlaneDict = @ \cup {"INTERP"}]
                     ELSE masked
               stageSummary == <<"using", satKeyword, "=", Fmt2(saturation)>>
           IN  Returned([mi EXCEPT !.metadata =
                   setString(metadata, ISR_SAT, Marker(stageSummary, asctime))])

\* ---- defects
\* the pixels of a list of Defect boxes that lie on the image
DefectPixels(image, defectList) ==
  {i \in 1..Len(image) : \E d \in 1..Len(defectList) :
      defectList[d].x0 < i /\ i <= defectList[d].x0 + defectList[d].width}

\* with interpolate the loop `for fp in fpList` names a list the function never
\* defines: it raises after the mask bits are set and before the marker
MaskBadPixelsDef(exposure, policy, defectList, interpolate, asctime) ==
  LET metadata == exposure.metadata
  IN  IF exists(metadata, ISR_BADP) THEN Skipped(exposure)
      ELSE IF "BAD" \notin exposure.maskPlaneDict THEN Raised(exposure)
      ELSE LET mi == setMaskFromFootprint(exposure,
                         DefectPixels(exposure.image, defectList), "BAD")
           IN  IF interpolate THEN Raised(mi)
               ELSE Returned([mi EXCEPT !.metadata =
                        setString(metadata, ISR_BADP,
                                  Marker(<<"without interpolation">>, asctime))])

\* ---- linearization
\* entries of the linearity table of the model
TableLength == 10

\* LookupTableFromPolicy: `value` is the table, or None for an unknown type
LookupTableFromPolicy(tablePolicy) ==
  IF Len(tablePolicy.value) # tablePolicy.length
  THEN [outcome |-> "raised", value |-> None, box |-> None]
  ELSE IF tablePolicy.type \in {"Replace", "Multiplicative"}
  THEN [outcome |-> "returned",
        value |-> Some([type |-> tablePolicy.type, values |-> tablePolicy.value])]
  ELSE [outcome |-> "returned", value |-> None, box |-> None]

\* the table entry for a pixel value (scaled by the gain): the entry at the
\* truncated value, the first or last entry outside the table
TableEntry(table, v, gain) ==
  LET k == RTrunc(RMul(v, gain))
      n == Len(table.values)
  IN  table.values[IF k < 0 THEN 1 ELSE IF k >= n THEN n ELSE k + 1]

\* isrLib LookupTable.apply(mi, gain): Replace maps the pixel through the table,
\* Multiplicative multiplies pixel by the entry and variance by its square
LookupTableApply(mi, table, gain) ==
  IF table.type = "Replace"
  THEN SetImage(mi, [i \in Pixels(mi) |-> TableEntry(table, mi.image[i], gain)])
  ELSE LET k == [i \in Pixels(mi) |-> TableEntry(table, mi.image[i], gain)]
           a == SetImage(mi, [i \in Pixels(mi) |-> RMul(mi.image[i], k[i])])
       IN  SetVariance(a, [i \in Pixels(mi) |-> RMul(a.variance[i], RMul(k[i], k[i]))])

\* lookupTable None: the table named by the policy is loaded from a path string,
\* which LookupTableFromPolicy cannot read (it raises)
Linearization(exposure, policy, lookupTable, asctime) ==
  LET metadata == exposure.metadata
  IN  IF exists(metadata, ISR_LIN) THEN Skipped(exposure)
      ELSE IF lookupTable = None THEN Raised(exposure)
      ELSE LET mi == LookupTableApply(exposure, lookupTable[1], R(1))
               stageSummary == <<"using table", "provided to ipIsr.Linearization">>
           IN  Returned([mi EXCEPT !.metadata =
                   setString(metadata, ISR_LIN, Marker(stageSummary, asctime))])

\* ---- cosmic rays
\* algorithms.findCosmicRays: the pixels that stand above both neighbours by at
\* least minSigma electrons
CosmicRayPixels(image, crPolicy) ==
  {i \in 1..Len(image) :
     \A j \in {i - 1, i + 1} \cap (1..Len(image)) :
        RGeq(RMul(RSub(image[i], image[j]), crPolicy.e_per_dn), crPolicy.minSigma)}

\* findCosmicRays(mi, psf, bg, crPolicy, False): the cosmic rays are flagged CR
\* and, not being kept, interpolated over
findCosmicRays(mi, crPolicy) ==
  LET crs == CosmicRayPixels(mi.image, crPolicy)
  IN  interpolateOverDefects(setMaskFromFootprint(mi, crs, "CR"), crs, <<>>)

\* afwMath.makeBackground(im, bctrl).getImageF(): a flat background at the mean
BackgroundImage(image) == [i \in 1..Len(image) |-> StatMean(image)]

\* CrRejection from `mi = exposure.getMaskedImage()` on: findCosmicRays is
\* handed the crRejectionPolicy of `policy` as it is by then
CrRejection_findCosmicRays(exposure, policy, subBackground, asctime) ==
           LET metadata == exposure.metadata
               crPolicy2 == policy.crRejectionPolicy
               backobj == BackgroundImage(exposure.image)
               sub == IF subBackground
                      THEN SetImage(exposure,
                              [i \in Pixels(exposure) |-> RSub(exposure.image[i], backobj[i])])
                      ELSE exposure
               found == findCosmicRays(sub, crPolicy2)
               mi == IF subBackground
                     THEN SetImage(found,
                             [i \in Pixels(found) |-> RAdd(found.image[i], backobj[i])])
                     ELSE found
               stageSummary == <<"with background subtraction =", subBackground, "found",
                                 Cardinality(CosmicRayPixels(sub.image, crPolicy2)), "CRs">>
           IN  [outcome |-> "returned",
                exposure |-> [mi EXCEPT !.metadata =
                    setString(metadata, ISR_CRREJ, Marker(stageSummary, asctime))],
                policy |-> policy]

\* CrRejection up to crPolicy.set('e_per_dn', gain): the gain of the Exposure is
\* written into the crRejectionPolicy of the policy the stage was given
CrRejection_set(exposure, policy) ==
  LET metadata == exposure.metadata
      crPolicy == policy.crRejectionPolicy
      gainKeyword == crPolicy.gainKeyword
  IN  IF exists(metadata, ISR_CRREJ)
      THEN [outcome |-> "skipped", exposure |-> exposure, policy |-> policy]
      ELSE IF ~exists(metadata, gainKeyword)
      THEN [outcome |-> "raised", exposure |-> exposure, policy |-> policy]
      ELSE [outcome |-> "set", exposure |-> exposure,
            policy |-> [policy EXCEPT !.crRejectionPolicy.e_per_dn =
                                         get(metadata, gainKeyword)]]

\* `policy` is the policy afterwards
CrRejection(exposure, policy, subBackground, asctime) ==
  LET set == CrRejection_set(exposure, policy)
  IN  IF set.outcome = "set"
      THEN CrRejection_findCosmicRays(exposure, set.policy, subBackground, asctime)
      ELSE set

\* ========================================================= Isr.py: functions
\* The same corrections as plain functions: no marker is read or written.

\* the gain exposureFromInputData uses: the metadata's, else the one under the
\* policy's defaultGainKeyword, else defaultGain; <<>> when the file name the
\* policy asks for is missing (metadata.get raises).  `policyArg` is <<>> when
\* the caller passes no policy.
InputGain(metadata, policyArg, defaultGain) ==
  IF exists(metadata, "gain") THEN <<get(metadata, "gain")>>
  ELSE IF policyArg # <<>>
  THEN LET policy == policyArg[1]
       IN  IF ~exists(metadata, policy.filenameKeyword) THEN <<>>
           ELSE IF policy.defaultGainKeyword # <<>>
                   /\ exists(metadata, policy.defaultGainKeyword[1])
           THEN <<get(metadata, policy.defaultGainKeyword[1])>>
           ELSE <<defaultGain>>
  ELSE <<defaultGain>>

\* exposureFromInputData: an empty mask, the variance ImageF(image) divided by
\* the gain, the metadata set on the Exposure.  ImageF(image) is called without
\* the deep flag (the call with True is commented out on the line above it, and
\* the stage module passes True and False explicitly), so the copy is the
\* constructor's default: `deep` is what that default does.  A shallow copy
\* shares the pixels, and var /= gain then divides the image as well.
exposureFromInputData(image, metadata, ampBBox, policyArg, defaultGain, deep) ==
  LET gain == InputGain(metadata, policyArg, defaultGain)
  IN  IF gain = <<>> THEN Raised(None)
      ELSE LET var == [image |-> image, variance |-> image, shared |-> ~deep]
               normalized == SetVariance(var, [i \in 1..Len(image) |->
                                                 RDiv(var.variance[i], gain[1])])
           IN  Returned(Some([image |-> normalized.image,
                              mask |-> [i \in 1..Len(image) |-> {}],
                              variance |-> normalized.variance,
                              metadata |-> metadata,
                              maskPlaneDict |-> DefaultMaskPlanes,
                              xy0 |-> ampBBox.x0, shared |-> ~deep]))

biasCorrection(exposure, bias) ==
  LET result ==
        IF ~SameDimensions(exposure, bias) THEN Raised(exposure)
        ELSE Returned(MaskedImageMinus(exposure, bias))
  IN  WithFrame(result, bias)

darkCorrection(exposure, dark, expscaling, darkscaling) ==
  LET result ==
        IF RIsZero(darkscaling) THEN Raised(exposure)
        ELSE IF ~SameDimensions(exposure, dark) THEN Raised(exposure)
        ELSE Returned(scaledMinus(exposure, DarkScale(expscaling, darkscaling), dark))
  IN  WithFrame(result, dark)

\* the flat normalisation of the scaling type; <<>> for a type not implemented
FlatScaling(flat, scalingtype, scaling) ==
  IF scalingtype = "MEAN" THEN <<StatMean(flat.image)>>
  ELSE IF scalingtype = "MEDIAN" THEN <<StatMedian(flat.image)>>
  ELSE IF scalingtype = "USER" THEN <<scaling>>
  ELSE <<>>

flatCorrection_normalizesFlat(exposure, flat, scalingtype, scaling) ==
  LET flatscaling == FlatScaling(flat, scalingtype, scaling)
      result ==
        IF flatscaling = <<>> THEN Raised(exposure)
        ELSE IF RIsZero(flatscaling[1]) THEN Raised(exposure)
        ELSE IF ~SameDimensions(exposure, flat) THEN Raised(exposure)
        ELSE Returned(scaledDivides(exposure, RDiv(R(1), flatscaling[1]), flat))
      normalized == [flat EXCEPT !.image = [i \in Pixels(flat) |->
                                              RDiv(flat.image[i], flatscaling[1])]]
  IN  WithFrame(result, IF result.outcome = "returned" THEN normalized ELSE flat)

flatCorrection(exposure, flat, scalingtype, scaling) ==
  LET flatscaling == FlatScaling(flat, scalingtype, scaling)
      result ==
        IF flatscaling = <<>> THEN Raised(exposure)
          ELSE IF RIsZero(flatscaling[1]) THEN Raised(exposure)
          ELSE IF ~SameDimensions(exposure, flat) THEN Raised(exposure)
          ELSE Returned(scaledDivides(exposure, RDiv(R(1), flatscaling[1]), flat))
  IN  WithFrame(result, flat)

illuminationCorrection(exposure, illum, illumscaling) ==
  LET result ==
        IF RIsZero(illumscaling) THEN Raised(exposure)
        ELSE IF ~SameDimensions(exposure, illum) THEN Raised(exposure)
        ELSE Returned(scaledDivides(exposure, RDiv(R(1), illumscaling), illum))
  IN  WithFrame(result, illum)

overscanCorrection_keepsKeyword(exposure, overscanBBox, fittype, overscanKeyword) ==
  IF ~BBoxInside(overscanBBox, exposure.image) THEN Raised(exposure)
  ELSE IF fittype \in {"MEAN", "MEDIAN"}
  THEN LET overscanData == SubPlane(exposure.image, overscanBBox)
           offset == OverscanOffset(overscanData, fittype)
       IN  Returned(MaskedImageMinusScalar(exposure, offset))
  ELSE Raised(exposure)

\* the overscan keyword is removed from the metadata after the subtraction
overscanCorrection(exposure, overscanBBox, fittype, overscanKeyword) ==
  IF ~BBoxInside(overscanBBox, exposure.image) THEN Raised(exposure)
  ELSE IF fittype \in {"MEAN", "MEDIAN"}
  THEN LET overscanData == SubPlane(exposure.image, overscanBBox)
           offset == OverscanOffset(overscanData, fittype)
           mi == MaskedImageMinusScalar(exposure, offset)
       IN  Returned([mi EXCEPT !.metadata = remove(exposure.metadata, overscanKeyword)])
  ELSE Raised(exposure)

trimNew_keepsTrimsec(exposure, ampBBox, trimsecArg, trimsecKeyword) ==
  LET metadata == exposure.metadata
      trimsec == IF exists(metadata, trimsecKeyword) /\ trimsecArg = <<>>
                 THEN metadata[trimsecKeyword] ELSE trimsecArg
  IN  IF trimsec = <<>>
      THEN TrimRaised(exposure, "LsstException")
      ELSE LET trimsecBBox == BBoxFromDatasec(trimsec[1])
           IN  IF trimsecBBox.width # ampBBox.width
               THEN TrimRaised(exposure, "NameError")
               ELSE IF ~BBoxInside(trimsecBBox, exposure.image)
               THEN TrimRaised(exposure, "LengthErrorException")
               ELSE [outcome |-> "returned",
                     exposure |-> exposure,
                     value |-> Some(SubExposure(exposure, trimsecBBox, metadata, ampBBox.x0)),
                     box |-> Some(trimsecBBox),
                     error |-> "none"]

\* trimsec is <<>> when the caller passes none.  The returned Exposure is a
\* shallow sub-Exposure: removing the trim section from its metadata removes it
\* from the input's too.
trimNew(exposure, ampBBox, trimsecArg, trimsecKeyword) ==
  LET metadata == exposure.metadata
      trimsec == IF exists(metadata, trimsecKeyword) /\ trimsecArg = <<>>
                 THEN metadata[trimsecKeyword] ELSE trimsecArg
  IN  IF trimsec = <<>>
      THEN TrimRaised(exposure, "LsstException")
      ELSE LET trimsecBBox == BBoxFromDatasec(trimsec[1])
           \* `raise pexException.LsstException`: the module imports the
           \* exceptions as pexExcept, so evaluating the name raises NameError
           IN  IF trimsecBBox.width # ampBBox.width
               THEN TrimRaised(exposure, "NameError")
               ELSE IF ~BBoxInside(trimsecBBox, exposure.image)
               THEN TrimRaised(exposure, "LengthErrorException")
               ELSE LET cleared == remove(metadata, trimsecKeyword)
                        trimmedExposure ==
                          SubExposure(exposure, trimsecBBox, cleared, ampBBox.x0)
                    IN  [outcome |-> "returned",
                         exposure |-> [exposure EXCEPT !.metadata = cleared],
                         value |-> Some(trimmedExposure), box |-> Some(trimsecBBox),
                         error |-> "none"]

\* afwMath.makeStatistics(image, afwMath.MEANCLIP): the mean of the pixels
\* within three standard deviations of the mean of all
StatMeanClip(s) ==
  LET mean == StatMean(s)
      sq(x) == RMul(x, x)
      var == StatMean([i \in 1..Len(s) |-> sq(RSub(s[i], mean))])
      keep == {i \in 1..Len(s) : ~RLess(RMul(R(9), var), sq(RSub(s[i], mean)))}
      RECURSIVE SumOver(_)
      SumOver(S) == IF S = {} THEN R(0)
                    ELSE LET i == CHOOSE j \in S : TRUE
                         IN  RAdd(s[i], SumOver(S \ {i}))
  IN  RDiv(SumOver(keep), R(Cardinality(keep)))

maskBadPixelsDef(exposure, defectList, interpolate, maskName) ==
  IF maskName \notin exposure.maskPlaneDict THEN Raised(exposure)
  ELSE LET bad == DefectPixels(exposure.image, defectList)
           mi == setMaskFromFootprint(exposure, bad, maskName)
       IN  IF interpolate
           THEN Returned(interpolateOverDefects(mi, bad, <<StatMeanClip(mi.image)>>))
           ELSE Returned(mi)

saturationCorrection(exposure, saturation, growSaturated, interpolate, maskName) ==
  IF maskName \notin exposure.maskPlaneDict THEN Raised(exposure)
  ELSE LET fpList == AboveThreshold(exposure.image, saturation)
           fpGrow == GrowPixels(exposure.image, fpList, growSaturated)
           masked == setMaskFromFootprint(exposure, fpGrow, maskName)
       IN  IF interpolate
           THEN Returned([interpolateOverDefects(masked, fpGrow, <<>>)
                            EXCEPT !.maskPlaneDict = @ \cup {"INTRP"}])
           ELSE Returned(masked)

linearization(exposure, lookupTable) ==
  IF ~exists(exposure.metadata, "gain") THEN Raised(exposure)
  ELSE Returned(LookupTableApply(exposure, lookupTable, get(exposure.metadata, "gain")))

crRejection(exposure, policy) ==
  LET crPolicy == policy.crRejectionPolicy
  IN  IF ~exists(exposure.metadata, "gain")
      THEN [outcome |-> "raised", exposure |-> exposure, policy |-> policy]
      ELSE LET crPolicy2 == [crPolicy EXCEPT !.e_per_dn = get(exposure.metadata, "gain")]
           IN  [outcome |-> "returned",
                exposure |-> findCosmicRays(exposure, crPolicy2),
                policy |-> [policy EXCEPT !.crRejectionPolicy = crPolicy2]]

\* ============================================= isrMockLSST.py: crosstalk
\* the amplifiers of the mock detector (crosstalkCoeffs is 8 by 8); idx runs
\* over 0..NAmp-1 as enumerate() gives it
NAmp == 8
\* pixels of one amplifier's data section
AmpWidth == 2
Amps == 0..(NAmp - 1)

\* self.crosstalkCoeffs[idxS][idxT], row idxS + 1 and column idxT + 1 here
crosstalkCoeffs ==
  LET z == R(0)
      c == Rat(1, 100)
  IN  << <<z, z, z, z, z, Rat(-1, 1000), z, z>>,
         <<c, z, z, z, z, z, z, z>>,
         <<c, z, z, z, z, z, z, z>>,
         <<c, z, z, z, z, z, z, z>>,
         <<c, z, z, z, z, z, z, z>>,
         <<c, z, z, z, z, z, z, z>>,
         <<c, z, z, Rat(22, 1000), z, z, z, z>>,
         <<c, Rat(5, 1000), Rat(5, 10000), Rat(3, 1000), Rat(4, 100), Rat(5, 1000),
           Rat(5, 1000), z>> >>
Coeff(idxS, idxT) == crosstalkCoeffs[idxS + 1][idxT + 1]

\* CrosstalkCalib.extractAmp(image, ampS, ampT): a new image with the pixels
\* amplifier S has in `image` when it is called (the orientation of the two
\* read-out corners is not modelled)
extractAmp(image, ampS, ampT) == image[ampS]

\* amplifierAddCT: ampDataTarget.array[:] += scale * ampDataSource.array[:]
amplifierAddCT(ampDataSource, ampDataTarget, scale) ==
  [i \in 1..Len(ampDataTarget) |-> RAdd(ampDataTarget[i], RMul(scale, ampDataSource[i]))]

\* the pair the loops of makeImage visit after (idxS, idxT): the inner loop
\* runs over the targets, the outer one over the sources
At(at, idxS, idxT) == [at |-> at, idxS |-> idxS, idxT |-> idxT]
NextPair(idxS, idxT) ==
  IF idxT + 1 < NAmp THEN At("crosstalk", idxS, idxT + 1)
  ELSE IF idxS + 1 < NAmp THEN At("crosstalk", idxS + 1, 0)
  ELSE At("done", idxS, idxT)

\* the images the mock is run on: amplifier a holds the level of the frame
\* times a + 1, then the same plus one
MockLevels == {1, 2}
MockImage(level) == [a \in Amps |-> [i \in 1..AmpWidth |-> R(level * (a + 1) + i - 1)]]
NotApplied == [pair \in Amps \X Amps |-> <<>>]

\* ================================================ the mock classes' config
\* The fields of the config the mock classes set, and what run() makes of them.
\* DefaultMockConfig(flat, gain, darkTime) is a config as IsrMockConfig() makes
\* it: the defaults of the inclusion flags doAddFlat and doAddGain and of
\* darkTime are arguments.
DefaultMockConfig(doAddFlat, doAddGain, darkTime) ==
  [doGenerateImage |-> FALSE, doGenerateData |-> FALSE, doGenerateAmpDict |-> FALSE,
   doBrighterFatter |-> FALSE, doDefects |-> FALSE, doCrosstalkCoeffs |-> FALSE,
   doTransmissionCurve |-> FALSE, isTrimmed |-> TRUE,
   doAddParallelOverscan |-> FALSE, doAddSerialOverscan |-> FALSE,
   doAddOverscan |-> TRUE, doAddSky |-> TRUE, doAddSource |-> TRUE,
   doAddCrosstalk |-> FALSE, doAddBias |-> TRUE, doAddDark |-> TRUE,
   doAddGain |-> doAddGain, doAddFlat |-> doAddFlat, doAddFringe |-> TRUE,
   darkTime |-> darkTime, readNoise |-> R(5), biasLevel |-> R(30000)]

\* ---- the __init__ of the classes: the config afterwards
RawMock(config) ==
  [config EXCEPT !.isTrimmed = FALSE, !.doGenerateImage = TRUE,
                 !.doGenerateAmpDict = FALSE, !.doAddParallelOverscan = TRUE,
                 !.doAddSerialOverscan = TRUE, !.doAddSky = TRUE, !.doAddSource = TRUE,
                 !.doAddCrosstalk = TRUE, !.doAddBias = TRUE, !.doAddDark = TRUE]

MasterMock(config) ==
  [config EXCEPT !.isTrimmed = TRUE, !.doGenerateImage = TRUE, !.doAddSky = FALSE,
                 !.doAddSource = FALSE, !.doAddOverscan = FALSE,
                 !.doAddCrosstalk = FALSE, !.doAddBias = FALSE, !.doAddDark = FALSE,
                 !.doAddGain = FALSE, !.doAddFlat = FALSE, !.doAddFringe = FALSE]

DarkMock(config) == [MasterMock(config) EXCEPT !.doAddDark = TRUE, !.darkTime = R(1)]

BiasMock(config) ==
  [MasterMock(config) EXCEPT !.doAddBias = TRUE, !.doAddGain = TRUE, !.readNoise = R(10)]

FlatMock(config) == [MasterMock(config) EXCEPT !.doAddFlat = TRUE]

FringeMock(config) == [MasterMock(config) EXCEPT !.doAddFringe = TRUE]

BfKernelMock(config) ==
  [config EXCEPT !.doGenerateImage = FALSE, !.doGenerateData = TRUE,
                 !.doBrighterFatter = TRUE, !.doDefects = TRUE,
                 !.doCrosstalkCoeffs = FALSE, !.doTransmissionCurve = FALSE]

DefectMock(config) ==
  [config EXCEPT !.doGenerateImage = FALSE, !.doGenerateData = TRUE,
                 !.doBrighterFatter = FALSE, !.doDefects = TRUE,
                 !.doCrosstalkCoeffs = FALSE, !.doTransmissionCurve = FALSE]

CrosstalkCoeffMock(config) ==
  [config EXCEPT !.doGenerateImage = FALSE, !.doGenerateData = TRUE,
                 !.doBrighterFatter = FALSE, !.doDefects = FALSE,
                 !.doCrosstalkCoeffs = TRUE, !.doTransmissionCurve = FALSE]

TransmissionMock(config) ==
  [config EXCEPT !.doGenerateImage = FALSE, !.doGenerateData = TRUE,
                 !.doBrighterFatter = FALSE, !.doDefects = FALSE,
                 !.doCrosstalkCoeffs = FALSE, !.doTransmissionCurve = TRUE]

\* ---- IsrMockLSST.run and makeData: what is returned, or the error raised
Product(product) == [outcome |-> "returned", product |-> product, error |-> "none"]
RuntimeError(message) == [outcome |-> "raised", product |-> "none", error |-> message]

makeData(config) ==
  IF Cardinality({f \in {"doBrighterFatter", "doDefects", "doTransmissionCurve",
                         "doCrosstalkCoeffs"} : config[f]}) # 1
  THEN RuntimeError("Only one data product can be generated at a time.")
  ELSE IF config.doBrighterFatter THEN Product("bfKernel")
  ELSE IF config.doDefects THEN Product("defectList")
  ELSE IF config.doTransmissionCurve THEN Product("transmissionCurve")
  ELSE IF config.doCrosstalkCoeffs THEN Product("crosstalkCoeffs")
  ELSE Product("None")

run(config) ==
  IF config.doGenerateImage /\ config.doGenerateData
  THEN RuntimeError("Only one of doGenerateImage and doGenerateData may be specified.")
  ELSE IF config.doGenerateImage THEN Product("image")
  ELSE IF config.doGenerateData THEN makeData(config)
  ELSE Product("None")

\* ---- MockDataContainer
\* the container's config is None (<<>>) until one is given or made
ConfigOrNew(config, fresh) == IF config = <<>> THEN fresh ELSE config[1]
expectImage(config, fresh) ==
  [ConfigOrNew(config, fresh) EXCEPT !.doGenerateImage = TRUE, !.doGenerateData = FALSE]
expectData(config, fresh) ==
  [ConfigOrNew(config, fresh) EXCEPT !.doGenerateImage = FALSE, !.doGenerateData = TRUE]

\* get(dataType): `config` is the container's config afterwards, `used` the
\* config the product was made with (<<>> when no mock was run).  The mock is
\* handed the container's own config object and sets its fields on it.
Got(config, used, result) == [config |-> config, used |-> used, result |-> result]
MockGot(config) == Got(<<config>>, <<config>>, run(config))

DataTypes ==
  {"bias_filename", "transmission_filter", "ccdExposureId", "camera", "raw", "bias",
   "dark", "flat", "fringe", "defects", "bfKernel", "linearizer", "crosstalkSources",
   "other"}

MockDataContainer_get(config, fresh, dataType) ==
  IF dataType = "bias_filename"
  THEN Got(<<expectData(config, fresh)>>, <<>>, Product("filename"))
  ELSE IF dataType = "transmission_filter"
  THEN MockGot(TransmissionMock(expectData(config, fresh)))
  ELSE IF dataType = "ccdExposureId"
  THEN Got(<<expectData(config, fresh)>>, <<>>, Product("20090913"))
  ELSE IF dataType = "camera"
  THEN Got(<<expectData(config, fresh)>>, <<>>, Product("camera"))
  ELSE IF dataType = "raw" THEN MockGot(RawMock(expectImage(config, fresh)))
  ELSE IF dataType = "bias" THEN MockGot(BiasMock(expectImage(config, fresh)))
  ELSE IF dataType = "dark" THEN MockGot(DarkMock(expectImage(config, fresh)))
  ELSE IF dataType = "flat" THEN MockGot(FlatMock(expectImage(config, fresh)))
  ELSE IF dataType = "fringe" THEN MockGot(FringeMock(expectImage(config, fresh)))
  ELSE IF dataType = "defects" THEN MockGot(DefectMock(expectData(config, fresh)))
  ELSE IF dataType = "bfKernel" THEN MockGot(BfKernelMock(expectData(config, fresh)))
  ELSE IF dataType \in {"linearizer", "crosstalkSources"}
  THEN Got(config, <<>>, Product("None"))
  ELSE Got(config, <<>>, RuntimeError("ISR DataRefMock cannot return %s."))

\* ================================================= the ISR task on amplifiers
\* IsrTaskLSST.run as test_isrBadPtcGain drives it: the gain of every amplifier
\* is looked at, the pixels are normalized by the gain, crosstalk is taken out
\* and the defects are masked.

\* not-a-number as a pixel value or a gain: the fraction 0/0
NaN == <<0, 0>>
IsFinite(x) == x[2] # 0
NDiv(a, b) == IF IsFinite(a) /\ IsFinite(b) /\ ~RIsZero(b) THEN RDiv(a, b) ELSE NaN
NMul(a, b) == IF IsFinite(a) /\ IsFinite(b) THEN RMul(a, b) ELSE NaN
NSub(a, b) == IF IsFinite(a) /\ IsFinite(b) THEN RSub(a, b) ELSE NaN

\* the coefficients the test hands to the task: the mock's, with every zero off
\* the diagonal made a small number that is not zero
SmallCoeff == Rat(1, 10000)
TestCoeff(idxS, idxT) ==
  IF idxS # idxT /\ RIsZero(Coeff(idxS, idxT)) THEN SmallCoeff ELSE Coeff(idxS, idxT)

\* the gains of the photon transfer curve: `bad` (an amplifier, or -1 for none)
\* has the gain set to nan
GoodGain == R(2)
PtcGain(bad) == [a \in Amps |-> IF a = bad THEN NaN ELSE GoodGain]

\* the defects the task is given: one box, on the first pixel of amplifier 2
DefectAmp == 2
AmpDefects == [a \in Amps |-> IF a = DefectAmp THEN <<[x0 |-> 0, width |-> 1]>> ELSE <<>>]
InAmpDefect(a, i) ==
  \E d \in 1..Len(AmpDefects[a]) :
    AmpDefects[a][d].x0 < i /\ i <= AmpDefects[a][d].x0 + AmpDefects[a][d].width

NoMask == [a \in Amps |-> [i \in 1..AmpWidth |-> {}]]

maskAmplifier_wholeExposure(mask, amp, maskName) ==
  [a \in Amps |-> [i \in 1..AmpWidth |-> mask[a][i] \cup {maskName}]]

\* an amplifier that cannot be used: every pixel of it gets the bit
maskAmplifier(mask, amp, maskName) ==
  [mask EXCEPT ![amp] = [i \in 1..AmpWidth |-> mask[amp][i] \cup {maskName}]]

\* the amplifier's pixels in electrons
gainNormalize(image, amp, gain) ==
  [image EXCEPT ![amp] = [i \in 1..AmpWidth |-> NDiv(image[amp][i], gain)]]

\* one pair of the crosstalk correction: coeff[S,T] times the source as it was
\* before the pass is subtracted from the target; an amplifier marked bad
\* is no source
subtractCrosstalk(image, source, idxS, idxT, coeff, badAmps) ==
  IF idxS = idxT \/ idxS \in badAmps THEN image
  ELSE [image EXCEPT ![idxT] =
          [i \in 1..AmpWidth |-> NSub(image[idxT][i], NMul(coeff, source[idxS][i]))]]

\* the BAD bit is ORed into the pixels of the defect boxes
maskDefects(mask) ==
  [a \in Amps |-> [i \in 1..AmpWidth |->
      IF InAmpDefect(a, i) THEN mask[a][i] \cup {"BAD"} ELSE mask[a][i]]]

\* ==================================================================== inputs
\* raw rows: the data section, then an overscan strip whose mean (4) and
\* median (5) differ; the second row starts with a saturated pixel
OverscanPixel(k) == R(((k * k) % 5) + 1)
RawImage(first) ==
  [i \in 1..RawWidth |-> IF i = 1 THEN R(first)
                         ELSE IF i <= DataWidth THEN R(8 + 4 * (i % 2))
                         ELSE OverscanPixel(i - DataWidth)]
InputImages == {RawImage(12), RawImage(40)}

\* the metadata that comes with a raw image
RawMetadata ==
  [EmptyMetadata EXCEPT !["gain"] = Present(R(2)),
                        !["EXPTIME"] = Present(R(10)),
                        !["overscan"] = Present(OverscanString),
                        !["trimsec"] = Present(TrimsecString),
                        !["saturate"] = Present(R(30)),
                        !["filename"] = Present("raw")]

\* a calibration frame of the trimmed size; v is the variance of every pixel
CalibrationFrame(image, v, md) ==
  [image |-> image,
   mask |-> [i \in 1..Len(image) |-> {}],
   variance |-> [i \in 1..Len(image) |-> R(v)],
   metadata |-> md,
   maskPlaneDict |-> DefaultMaskPlanes,
   xy0 |-> 0, shared |-> FALSE]

BiasImage == [i \in 1..DataWidth |-> R(i)]
DarkImage == [i \in 1..DataWidth |-> R(1 + (i % 2))]
FlatImage == [i \in 1..DataWidth |-> R(i)]
IllumImage == [i \in 1..DataWidth |-> R(2)]

BiasFrame(v) ==
  CalibrationFrame(BiasImage, v,
    [EmptyMetadata EXCEPT !["filename"] = Present("bias"),
                          !["MEANCOUNTS"] = Present(StatMean(BiasImage))])
DarkFrame(v) ==
  CalibrationFrame(DarkImage, v,
    [EmptyMetadata EXCEPT !["filename"] = Present("dark"),
                          !["EXPTIME"] = Present(R(5))])
FlatFrame(v) ==
  CalibrationFrame(FlatImage, v,
    [EmptyMetadata EXCEPT !["filename"] = Present("flat"),
                          !["FLATSCALE"] = Present(StatMean(FlatImage))])
IllumFrame(v) ==
  CalibrationFrame(IllumImage, v,
    [EmptyMetadata EXCEPT !["filename"] = Present("illum"),
                          !["ILLUMSCALE"] = Present(R(2))])

\* the variance a calibration frame may carry in every pixel
CalibrationVariances == {0, 1}

\* the defect list: one box on the last pixel of the data section
DefectList == <<[x0 |-> DataWidth - 1, width |-> 1]>>

\* the linearity table: multiplicative, 1 everywhere but the last entry
LinearizePolicy ==
  [type |-> "Multiplicative", length |-> TableLength,
   value |-> [k \in 1..TableLength |-> IF k < TableLength THEN R(1) ELSE R(2)]]

FitTypes == {"MEAN", "MEDIAN", "POLY", "BOGUS"}
ScalingTypes == {"MEAN", "MEDIAN", "USER", "BOGUS"}

Policy ==
  [filenameKeyword |-> "filename",
   defaultGainKeyword |-> <<>>,
   biasPolicy |-> [meanCountsKeyword |-> "MEANCOUNTS"],
   darkPolicy |-> [darkScaleKeyword |-> "EXPTIME"],
   flatPolicy |-> [flatScaleKeyword |-> "FLATSCALE"],
   illuminationPolicy |-> [illumScaleKeyword |-> "ILLUMSCALE"],
   overscanPolicy |-> [overscanKeyword |-> "overscan", overscanFitType |-> "MEAN"],
   trimPolicy |-> [trimsecKeyword |-> "trimsec"],
   saturationPolicy |-> [saturationKeyword |-> "saturate",
                         defaultSaturation |-> R(30), growSaturated |-> 1],
   crRejectionPolicy |-> [gainKeyword |-> "gain", e_per_dn |-> R(1), minSigma |-> R(50)]]

\* ===================================================================== state
VARIABLES
  inputImage,          \* the raw image handed in
  inputMetadata,       \* its metadata
  inputExposure,       \* the Exposure made from them (None before)
  calibratedExposure,  \* what the last trim call returned (None before)
  trimReturned,        \* a trim call has returned: later stages take its result
  view,                \* the box of calibratedExposure in inputExposure
  bias, dark, flat, illum,   \* the calibration frames
  policy,              \* the policy object every stage is given
  clock,               \* the wall clock time.asctime() reads
  calls,               \* stage calls made so far
  last,                \* the last call: function, arguments, outcome, Exposure before
  pc,                  \* IsrStage.process: the statement it is at
  started,             \* IsrStage.process: the stages it has started, in order
  outputQueue,         \* IsrStage.process: the clipboards added to the output queue
  module,              \* the module the caller works with: "IsrStages" or "Isr"
  doAddCrosstalk,      \* IsrMockLSST: config.doAddCrosstalk
  ampData,             \* IsrMockLSST: the pixels of every amplifier of the exposure
  mockPc,              \* IsrMockLSST.makeImage: where it is, with idxS and idxT
  ctBefore,            \* the amplifier pixels when the crosstalk pass began
  ctApplied,           \* for every pair visited, what the pass added to the target
  ptcGain,             \* IsrTaskLSST.run: the gain of every amplifier
  ampMask,             \* IsrTaskLSST.run: the mask of every amplifier of the exposure
  badAmps,             \* IsrTaskLSST.run: the amplifiers found bad
  runPc,               \* IsrTaskLSST.run: where it is
  runLog,              \* IsrTaskLSST.run: the warnings logged
  instances,           \* two callers at work on an Exposure each, with one policy
  container,           \* MockDataContainer: its config and the last product asked for
  mockAmp              \* IsrMockLSST.makeImage: gain, doAddGain and the loop's local ampData

vars == <<inputImage, inputMetadata, inputExposure, calibratedExposure, trimReturned,
          view, bias, dark, flat, illum, policy, clock, calls, last, pc, started,
          outputQueue, module, doAddCrosstalk, ampData, mockPc, ctBefore, ctApplied,
          ptcGain, ampMask, badAmps, runPc, runLog, instances, container, mockAmp>>

\* the state of the mock and of the ISR task: the stage functions never touch it
mockVars == <<doAddCrosstalk, ampData, mockPc, ctBefore, ctApplied>>
runVars == <<ptcGain, ampMask, badAmps, runPc, runLog>>
inputs == <<inputImage, inputMetadata, module, mockVars, runVars, instances,
            container, mockAmp>>
frames == <<bias, dark, flat, illum>>
procVars == <<pc, started, outputQueue>>

NoCall == [fn |-> "none", args |-> <<>>, outcome |-> "none", before |-> None,
           repeat |-> FALSE, first |-> "none", asctime |-> 0, error |-> "none"]

\* no mock is running
MockIdle ==
  /\ doAddCrosstalk = FALSE
  /\ ampData = MockImage(1)
  /\ mockPc = At("idle", 0, 0)
  /\ ctBefore = ampData
  /\ ctApplied = NotApplied

\* no ISR task is running
RunIdle ==
  /\ ptcGain = PtcGain(-1)
  /\ ampMask = NoMask
  /\ badAmps = {}
  /\ runPc = At("idle", 0, 0)
  /\ runLog = <<>>

\* no second caller, no container, no amplifier loop
NoInstances == <<>>
NoContainer == <<>>
NoMockAmp == <<>>

InitWith(pol) ==
  /\ MockIdle
  /\ RunIdle
  /\ inputImage \in InputImages
  /\ inputMetadata = RawMetadata
  /\ inputExposure = None
  /\ calibratedExposure = None
  /\ trimReturned = FALSE
  /\ view = None
  /\ \E v \in CalibrationVariances :
       /\ bias = BiasFrame(v)
       /\ dark = DarkFrame(v)
       /\ flat = FlatFrame(v)
       /\ illum = IllumFrame(v)
  /\ policy = pol
  /\ clock = 0
  /\ calls = 0
  /\ last = NoCall
  /\ pc = "idle"
  /\ started = <<>>
  /\ outputQueue = <<>>
  /\ module \in {"IsrStages", "Isr"}

Init == InitWith(Policy) /\ instances = NoInstances /\ container = NoContainer /\ mockAmp = NoMockAmp

\* the Exposure a caller hands to the stages after construction (and trim)
Target == IF trimReturned THEN calibratedExposure ELSE inputExposure

\* a shallow sub-Exposure shares pixels, mask planes and metadata with its
\* parent: what a stage did to the view shows in the parent
WriteThrough(parent, v, bbox) ==
  LET put(p, q) == [i \in 1..Len(p) |->
                      IF bbox.x0 < i /\ i <= bbox.x0 + bbox.width THEN q[i - bbox.x0]
                      ELSE p[i]]
  IN  [parent EXCEPT !.image = put(@, v.image),
                     !.mask = put(@, v.mask),
                     !.variance = put(@, v.variance),
                     !.metadata = v.metadata,
                     !.maskPlaneDict = v.maskPlaneDict]

\* the Exposures after a stage left the target as `e`
SetTarget(e) ==
  IF trimReturned
  THEN /\ calibratedExposure' = Some(e)
       /\ inputExposure' = Some(WriteThrough(inputExposure[1], e, view[1]))
  ELSE /\ inputExposure' = Some(e)
       /\ calibratedExposure' = calibratedExposure

\* the functions of IsrStages.py; the others named in a call are Isr.py's
StageFunctions ==
  {"ExposureFromInputData", "Linearization", "OverscanCorrection", "TrimNew",
   "SaturationCorrection", "BiasCorrection", "DarkCorrection", "FlatCorrection",
   "IlluminationCorrection", "MaskBadPixelsDef", "CrRejection"}
ModuleOf(fn) == IF fn \in StageFunctions THEN "IsrStages" ELSE "Isr"

\* `error` is the exception of a call that raised, where the model tells the
\* exceptions apart (the trim calls), and "none" of a call that did not raise
RecordError(fn, args, outcome, before, error) ==
  /\ last' = [fn |-> fn, args |-> args, outcome |-> outcome, before |-> before,
              repeat |-> (last.fn = fn /\ last.args = args),
              first |-> IF last.fn = fn /\ last.args = args THEN last.outcome ELSE "none",
              asctime |-> clock, error |-> error]
  /\ clock' = clock + 1

Record(fn, args, outcome, before) ==
  RecordError(fn, args, outcome, before, IF outcome = "raised" THEN "Exception" ELSE "none")

\* a caller invokes stage `fn`, which maps the target Exposure to a result; on
\* None the stage raises at its first use of the Exposure
InRange(e) ==
  \A i \in Pixels(e) :
    \A v \in {e.image[i], e.variance[i]} : Abs(v[1]) <= MaxPixel /\ v[2] <= MaxPixel

StageCallOn(fn, args, F(_)) ==
  /\ pc = "idle"
  /\ module = ModuleOf(fn)
  /\ Target # None => InRange(Target[1])
  /\ calls < MaxCalls
  /\ calls' = calls + 1
  /\ inputExposure # None
  /\ IF Target = None
     THEN /\ Record(fn, args, "raised", None)
          /\ UNCHANGED <<inputExposure, calibratedExposure>>
     ELSE /\ Record(fn, args, F(Target[1]).outcome, Target)
          /\ SetTarget(F(Target[1]).exposure)
  /\ UNCHANGED <<inputs, trimReturned, view, procVars>>

\* a stage that is given no calibration frame
StageCall(fn, args, F(_)) ==
  /\ StageCallOn(fn, args, F)
  /\ UNCHANGED frames

\* the frame a correction stage was given, after the call
FrameAfter(frame, F(_)) == IF Target = None THEN frame ELSE F(Target[1]).frame

\* ------------------------------------------------------------ construction
Stage_ExposureFromInputData ==
  /\ pc = "idle"
  /\ module = "IsrStages"
  /\ inputExposure = None
  /\ \E carried \in {EmptyMetadata, inputMetadata} :
       LET res == ExposureFromInputData(inputImage, inputMetadata, carried)
       IN  /\ inputExposure' = res.exposure
           /\ Record("ExposureFromInputData", <<carried>>, res.outcome, None)
  /\ UNCHANGED <<inputs, calibratedExposure, trimReturned, view, frames, policy, calls, procVars>>

Isr_exposureFromInputData ==
  /\ pc = "idle"
  /\ module = "Isr"
  /\ inputExposure = None
  /\ \E deep \in BOOLEAN :
       LET res == exposureFromInputData(inputImage, inputMetadata,
                                        [x0 |-> 0, width |-> RawWidth], <<policy>>,
                                        R(1), deep)
       IN  /\ inputExposure' = res.exposure
           /\ Record("exposureFromInputData", <<deep>>, res.outcome, None)
  /\ UNCHANGED <<inputs, calibratedExposure, trimReturned, view, frames, policy, calls, procVars>>

\* ------------------------------------------------------- IsrStages.py calls
Stage_Linearization ==
  /\ \E lookupTable \in {None, LookupTableFromPolicy(LinearizePolicy).value} :
       LET F(e) == Linearization(e, policy, lookupTable, clock)
       IN  StageCall("Linearization", <<lookupTable>>, F)
  /\ UNCHANGED policy

Stage_OverscanCorrection ==
  /\ \E fitType \in FitTypes :
       LET F(e) == OverscanCorrection(
                     e, [policy EXCEPT !.overscanPolicy.overscanFitType = fitType], clock)
       IN  StageCall("OverscanCorrection", <<fitType>>, F)
  /\ UNCHANGED policy

Stage_SaturationCorrection ==
  /\ \E interpolate \in BOOLEAN :
       LET F(e) == SaturationCorrection(e, policy, interpolate, clock)
       IN  StageCall("SaturationCorrection", <<interpolate>>, F)
  /\ UNCHANGED policy

Stage_BiasCorrection ==
  /\ LET F(e) == BiasCorrection(e, bias, policy, clock)
     IN  /\ StageCallOn("BiasCorrection", <<>>, F)
         /\ bias' = FrameAfter(bias, F)
  /\ UNCHANGED <<dark, flat, illum, policy>>

Stage_DarkCorrection ==
  /\ LET F(e) == DarkCorrection(e, dark, policy, clock)
     IN  /\ StageCallOn("DarkCorrection", <<>>, F)
         /\ dark' = FrameAfter(dark, F)
  /\ UNCHANGED <<bias, flat, illum, policy>>

Stage_FlatCorrection ==
  /\ LET F(e) == FlatCorrection(e, flat, policy, clock)
     IN  /\ StageCallOn("FlatCorrection", <<>>, F)
         /\ flat' = FrameAfter(flat, F)
  /\ UNCHANGED <<bias, dark, illum, policy>>

Stage_IlluminationCorrection ==
  /\ LET F(e) == IlluminationCorrection(e, illum, policy, clock)
     IN  /\ StageCallOn("IlluminationCorrection", <<>>, F)
         /\ illum' = FrameAfter(illum, F)
  /\ UNCHANGED <<bias, dark, flat, policy>>

Stage_MaskBadPixelsDef ==
  /\ \E interpolate \in BOOLEAN :
       LET F(e) == MaskBadPixelsDef(e, policy, DefectList, interpolate, clock)
       IN  StageCall("MaskBadPixelsDef", <<interpolate>>, F)
  /\ UNCHANGED policy

Stage_CrRejection ==
  \E subBackground \in BOOLEAN :
    LET F(e) == CrRejection(e, policy, subBackground, clock)
    IN  /\ StageCall("CrRejection", <<subBackground>>, F)
        /\ policy' = IF Target = None THEN policy ELSE F(Target[1]).policy

\* a trim call takes the input Exposure and hands back a new one
TrimCall(fn, args, res) ==
  /\ pc = "idle"
  /\ module = ModuleOf(fn)
  /\ inputExposure # None => InRange(inputExposure[1])
  /\ calls < MaxCalls
  /\ calls' = calls + 1
  /\ inputExposure # None
  /\ RecordError(fn, args, res.outcome, inputExposure, res.error)
  /\ inputExposure' = Some(res.exposure)
  /\ IF res.outcome = "raised"
     THEN UNCHANGED <<calibratedExposure, trimReturned, view>>
     ELSE /\ calibratedExposure' = res.value
          /\ trimReturned' = TRUE
          /\ view' = res.box
  /\ UNCHANGED <<inputs, frames, policy, procVars>>

Stage_TrimNew ==
  /\ inputExposure # None
  /\ TrimCall("TrimNew", <<>>, TrimNew(inputExposure[1], policy, clock))

\* ------------------------------------------------------------- Isr.py calls
Isr_biasCorrection ==
  /\ LET F(e) == biasCorrection(e, bias)
     IN  /\ StageCallOn("biasCorrection", <<>>, F)
         /\ bias' = FrameAfter(bias, F)
  /\ UNCHANGED <<dark, flat, illum, policy>>

\* the caller passes the two exposure times
Isr_darkCorrection ==
  /\ LET F(e) == darkCorrection(e, dark, get(inputMetadata, "EXPTIME"),
                                get(dark.metadata, "EXPTIME"))
     IN  /\ StageCallOn("darkCorrection", <<>>, F)
         /\ dark' = FrameAfter(dark, F)
  /\ UNCHANGED <<bias, flat, illum, policy>>

Isr_flatCorrection ==
  /\ \E scalingtype \in ScalingTypes :
       LET F(e) == flatCorrection(e, flat, scalingtype, R(2))
       IN  /\ StageCallOn("flatCorrection", <<scalingtype>>, F)
           /\ flat' = FrameAfter(flat, F)
  /\ UNCHANGED <<bias, dark, illum, policy>>

Isr_illuminationCorrection ==
  /\ LET F(e) == illuminationCorrection(e, illum, get(illum.metadata, "ILLUMSCALE"))
     IN  /\ StageCallOn("illuminationCorrection", <<>>, F)
         /\ illum' = FrameAfter(illum, F)
  /\ UNCHANGED <<bias, dark, flat, policy>>

Isr_overscanCorrection ==
  /\ \E fittype \in FitTypes :
       LET F(e) == overscanCorrection(e, BBoxFromDatasec(OverscanString), fittype, "overscan")
       IN  StageCall("overscanCorrection", <<fittype>>, F)
  /\ UNCHANGED policy

Isr_maskBadPixelsDef ==
  /\ \E interpolate \in BOOLEAN :
       LET F(e) == maskBadPixelsDef(e, DefectList, interpolate, "BAD")
       IN  StageCall("maskBadPixelsDef", <<interpolate>>, F)
  /\ UNCHANGED policy

Isr_saturationCorrection ==
  /\ \E interpolate \in BOOLEAN :
       LET F(e) == saturationCorrection(e, get(inputMetadata, "saturate"), 0,
                                        interpolate, "SAT")
       IN  StageCall("saturationCorrection", <<interpolate>>, F)
  /\ UNCHANGED policy

Isr_linearization ==
  /\ LET F(e) == linearization(e, LookupTableFromPolicy(LinearizePolicy).value[1])
     IN  StageCall("linearization", <<>>, F)
  /\ UNCHANGED policy

Isr_crRejection ==
  LET F(e) == crRejection(e, policy)
  IN  /\ StageCall("crRejection", <<>>, F)
      /\ policy' = IF Target = None THEN policy ELSE F(Target[1]).policy

Isr_trimNew ==
  /\ inputExposure # None
  /\ \E width \in {DataWidth, DataWidth + 1}, trimsecArg \in {<<>>, <<TrimsecString>>} :
       TrimCall("trimNew", <<width, trimsecArg>>,
                trimNew(inputExposure[1], [x0 |-> 0, width |-> width], trimsecArg, "trimsec"))

\* --------------------------------------------------------------- behaviours
StageCalls ==
  \/ Stage_Linearization
  \/ Stage_OverscanCorrection
  \/ Stage_TrimNew
  \/ Stage_SaturationCorrection
  \/ Stage_BiasCorrection
  \/ Stage_DarkCorrection
  \/ Stage_FlatCorrection
  \/ Stage_IlluminationCorrection
  \/ Stage_MaskBadPixelsDef
  \/ Stage_CrRejection

IsrCalls ==
  \/ Isr_biasCorrection
  \/ Isr_darkCorrection
  \/ Isr_flatCorrection
  \/ Isr_illuminationCorrection
  \/ Isr_overscanCorrection
  \/ Isr_trimNew
  \/ Isr_maskBadPixelsDef
  \/ Isr_saturationCorrection
  \/ Isr_linearization
  \/ Isr_crRejection

Next ==
  \/ Stage_ExposureFromInputData
  \/ Isr_exposureFromInputData
  \/ StageCalls
  \/ IsrCalls

Spec == Init /\ [][Next]_vars

\* ======================================================== IsrStage.process
ProcessProgram_biasBeforeSaturation ==
  <<"getInputs", "ExposureFromInputData", "LookupTableFromPolicy", "Linearization",
    "OverscanCorrection", "TrimNew",
    "imageFromInputData(biasPath)", "BiasCorrection", "SaturationCorrection",
    "imageFromInputData(darkPath)", "DarkCorrection",
    "imageFromInputData(flatPath)", "FlatCorrection",
    "imageFromInputData(fringePath)", "policyToBadRegionList", "MaskBadPixelsDef",
    "CrRejection", "clipboard.put", "outputQueue.addDataset">>

\* the statements of process in the order of the source text
ProcessProgram ==
  <<"getInputs", "ExposureFromInputData", "LookupTableFromPolicy", "Linearization",
    "OverscanCorrection", "TrimNew", "SaturationCorrection",
    "imageFromInputData(biasPath)", "BiasCorrection",
    "imageFromInputData(darkPath)", "DarkCorrection",
    "imageFromInputData(flatPath)", "FlatCorrection",
    "imageFromInputData(fringePath)", "policyToBadRegionList", "MaskBadPixelsDef",
    "CrRejection", "clipboard.put", "outputQueue.addDataset">>

\* the statements that call a correction stage
ProcessStages ==
  {"Linearization", "OverscanCorrection", "TrimNew", "SaturationCorrection",
   "BiasCorrection", "DarkCorrection", "FlatCorrection", "MaskBadPixelsDef",
   "CrRejection"}

\* the statements whose names the module does not define or binds too late:
\* line 27 reads the local inputMetadata before it is assigned, and
\* imageFromInputData is defined nowhere in the file.  As written they raise;
\* the behaviour with the name resolved (the lookup by inputMetadataName, a
\* loader supplied by the harness) is kept beside it so that the rest of the
\* sequence is examined too.
UnresolvedNames ==
  {"getInputs", "imageFromInputData(biasPath)", "imageFromInputData(darkPath)",
   "imageFromInputData(flatPath)", "imageFromInputData(fringePath)"}

IndexOf(stmt) == CHOOSE i \in 1..Len(ProcessProgram) : ProcessProgram[i] = stmt

AfterStatement_swallow(stmt, outcome) ==
  IF IndexOf(stmt) = Len(ProcessProgram) THEN "done"
  ELSE ProcessProgram[IndexOf(stmt) + 1]

\* where control goes after a statement: an exception leaves process at once
\* (there is no try/except), otherwise the next statement follows
AfterStatement(stmt, outcome) ==
  IF outcome = "raised" THEN "raised"
  ELSE IF IndexOf(stmt) = Len(ProcessProgram) THEN "done"
  ELSE ProcessProgram[IndexOf(stmt) + 1]

\* the effect of one statement: the outcome, the two Exposures and the policy
\* afterwards.  `resolved` and `carried` are the environment's part (see
\* UnresolvedNames and ExposureFromInputData).
Effect(outcome, inExp, calExp, trimmed, box, pol) ==
  [outcome |-> outcome, inputExposure |-> inExp, calibratedExposure |-> calExp,
   trimReturned |-> trimmed, view |-> box, policy |-> pol]

NoEffect(outcome) ==
  Effect(outcome, inputExposure, calibratedExposure, trimReturned, view, policy)

\* a stage called on the current target
OnTarget(res, pol) ==
  IF trimReturned
  THEN Effect(res.outcome, Some(WriteThrough(inputExposure[1], res.exposure, view[1])),
              Some(res.exposure), trimReturned, view, pol)
  ELSE Effect(res.outcome, Some(res.exposure), calibratedExposure, trimReturned, view, pol)

Execute(stmt, resolved, carried) ==
  IF stmt \in UnresolvedNames
  THEN NoEffect(IF resolved THEN "returned" ELSE "raised")
  ELSE IF stmt = "ExposureFromInputData"
  THEN LET res == ExposureFromInputData(inputImage, inputMetadata, carried)
       IN  Effect(res.outcome, res.exposure, calibratedExposure, trimReturned, view, policy)
  ELSE IF stmt = "LookupTableFromPolicy"
  THEN NoEffect(LookupTableFromPolicy(LinearizePolicy).outcome)
  ELSE IF stmt \in {"policyToBadRegionList", "clipboard.put", "outputQueue.addDataset"}
  THEN NoEffect("returned")
  ELSE IF stmt = "TrimNew"
  THEN LET res == TrimNew(inputExposure[1], policy, clock)
       IN  IF res.outcome = "raised" THEN NoEffect("raised")
           ELSE Effect(res.outcome, Some(res.exposure), res.value, TRUE, res.box, policy)
  \* every other stage takes the Exposure bound so far; None has no getMetadata
  ELSE IF Target = None THEN NoEffect("raised")
  ELSE LET e == Target[1]
       IN  IF stmt = "Linearization"
           THEN OnTarget(Linearization(e, policy,
                             LookupTableFromPolicy(LinearizePolicy).value, clock), policy)
           ELSE IF stmt = "OverscanCorrection"
           THEN OnTarget(OverscanCorrection(e, policy, clock), policy)
           ELSE IF stmt = "SaturationCorrection"
           THEN OnTarget(SaturationCorrection(e, policy, TRUE, clock), policy)
           ELSE IF stmt = "BiasCorrection"
           THEN OnTarget(BiasCorrection(e, bias, policy, clock), policy)
           ELSE IF stmt = "DarkCorrection"
           THEN OnTarget(DarkCorrection(e, dark, policy, clock), policy)
           ELSE IF stmt = "FlatCorrection"
           THEN OnTarget(FlatCorrection(e, flat, policy, clock), policy)
           ELSE IF stmt = "MaskBadPixelsDef"
           THEN OnTarget(MaskBadPixelsDef(e, policy, DefectList, TRUE, clock), policy)
           ELSE LET res == CrRejection(e, policy, TRUE, clock)
                IN  OnTarget(res, res.policy)

\* the harness calls process: the next dataset is taken from the input queue
process_begin ==
  /\ pc = "idle"
  /\ module = "IsrStages"
  /\ inputExposure = None
  /\ pc' = ProcessProgram[1]
  /\ UNCHANGED <<inputs, inputExposure, calibratedExposure, trimReturned, view, frames,
                 policy, clock, calls, last, started, outputQueue>>

\* process runs its next statement
process_step ==
  /\ pc \notin {"idle", "raised", "done"}
  /\ \E resolved \in BOOLEAN, carried \in {EmptyMetadata, inputMetadata} :
       LET eff == Execute(pc, resolved, carried)
       IN  /\ pc' = AfterStatement(pc, eff.outcome)
           /\ inputExposure' = eff.inputExposure
           /\ calibratedExposure' = eff.calibratedExposure
           /\ trimReturned' = eff.trimReturned
           /\ view' = eff.view
           /\ policy' = eff.policy
           /\ Record(pc, <<>>, eff.outcome, IF pc = "TrimNew" THEN inputExposure ELSE Target)
  /\ started' = IF pc \in ProcessStages THEN Append(started, pc) ELSE started
  /\ outputQueue' = IF pc = "outputQueue.addDataset"
                    THEN Append(outputQueue, [calibratedExposure |-> calibratedExposure])
                    ELSE outputQueue
  /\ bias' = IF pc = "BiasCorrection" /\ Target # None
             THEN BiasCorrection(Target[1], bias, policy, clock).frame ELSE bias
  /\ dark' = IF pc = "DarkCorrection" /\ Target # None
             THEN DarkCorrection(Target[1], dark, policy, clock).frame ELSE dark
  /\ flat' = IF pc = "FlatCorrection" /\ Target # None
             THEN FlatCorrection(Target[1], flat, policy, clock).frame ELSE flat
  /\ UNCHANGED <<inputs, illum, calls>>

\* the stage policy is the pipeline's to configure: every overscan fit type
ProcInit ==
  \E ft \in FitTypes :
    /\ InitWith([Policy EXCEPT !.overscanPolicy.overscanFitType = ft])
    /\ instances = NoInstances
    /\ container = NoContainer
    /\ mockAmp = NoMockAmp
    /\ module = "IsrStages"

ProcNext ==
  \/ process_begin
  \/ process_step

ProcSpec == ProcInit /\ [][ProcNext]_vars

\* the harness calls process once the input queue holds a dataset, and a
\* call that has started runs on until it returns or raises
\* weak fairness of process_step with its enabling condition written out:
\* Execute is defined for every statement, so the step is enabled exactly
\* while pc is at a statement, and every step moves pc
Running == pc \notin {"idle", "raised", "done"}
process_step_fair == []<>(~Running) \/ []<><<process_step>>_pc

ProcLiveSpec ==
  ProcInit /\ [][ProcNext]_vars /\ WF_pc(process_begin) /\ process_step_fair

\* ================================================== IsrMockLSST.makeImage
\* the stage functions are not called while the mock makes its image
StagesIdle ==
  /\ inputImage = RawImage(12)
  /\ inputMetadata = RawMetadata
  /\ inputExposure = None
  /\ calibratedExposure = None
  /\ trimReturned = FALSE
  /\ view = None
  /\ bias = BiasFrame(0)
  /\ dark = DarkFrame(0)
  /\ flat = FlatFrame(0)
  /\ illum = IllumFrame(0)
  /\ policy = Policy
  /\ clock = 0
  /\ calls = 0
  /\ last = NoCall
  /\ pc = "idle"
  /\ started = <<>>
  /\ outputQueue = <<>>
  /\ module = "isrMockLSST"

stageVars == <<inputImage, inputMetadata, inputExposure, calibratedExposure, trimReturned,
               view, bias, dark, flat, illum, policy, clock, calls, last, pc, started,
               outputQueue, module>>

\* exposure = self.getExposure(): every pixel 0
ZeroImage == [a \in Amps |-> [i \in 1..AmpWidth |-> R(0)]]
MockGains == {R(1), R(2)}

\* amplifierAddNoise(ampData, mean, sigma): the draws are added to the pixels of
\* the view, that is, of the exposure
amplifierAddNoise(ampArr, draws) == [i \in 1..AmpWidth |-> RAdd(ampArr[i], draws[i])]

\* ampData / self.config.gain: a new image, the operand is left as it is
ImageDividedBy(ampArr, gain) == [i \in 1..AmpWidth |-> RDiv(ampArr[i], gain)]

\* makeImage begins: `draws` are the numbers the signal steps will add
MockInit ==
  /\ StagesIdle
  /\ instances = NoInstances
  /\ container = NoContainer
  /\ RunIdle
  /\ doAddCrosstalk \in BOOLEAN
  /\ ampData = ZeroImage
  /\ \E level \in MockLevels, gain \in MockGains, doAddGain \in BOOLEAN :
       mockAmp = [gain |-> gain, doAddGain |-> doAddGain, draws |-> MockImage(level),
                  electrons |-> [a \in Amps |-> <<>>], local |-> <<>>]
  /\ mockPc = At("amplifier", 0, 0)
  /\ ctBefore = ampData
  /\ ctApplied = NotApplied

\* one turn of the loop over the amplifiers: the signal is added to the view
\* ampData of the exposure; with doAddGain the local name ampData is then bound
\* to the quotient, a new image
makeImage_amplifier ==
  /\ mockPc.at = "amplifier"
  /\ LET idx == mockPc.idxS
         signal == amplifierAddNoise(ampData[idx], mockAmp.draws[idx])
     IN  /\ ampData' = [ampData EXCEPT ![idx] = signal]
         /\ mockAmp' = [mockAmp EXCEPT
                          !.electrons[idx] = <<signal>>,
                          !.local = IF mockAmp.doAddGain
                                    THEN <<ImageDividedBy(signal, mockAmp.gain)>>
                                    ELSE <<signal>>]
         /\ mockPc' = IF idx + 1 < NAmp THEN At("amplifier", idx + 1, 0)
                      ELSE At("step4", 0, 0)
  /\ UNCHANGED <<stageVars, runVars, instances, container, doAddCrosstalk, ctBefore,
                 ctApplied>>

\* makeImage comes to step 4: with doAddCrosstalk the two loops begin
makeImage_crosstalk ==
  /\ mockPc.at = "step4"
  /\ mockPc' = IF doAddCrosstalk THEN At("crosstalk", 0, 0) ELSE At("done", 0, 0)
  /\ ctBefore' = ampData
  /\ UNCHANGED <<stageVars, runVars, instances, container, mockAmp, doAddCrosstalk, ampData, ctApplied>>

\* one turn of the inner loop: the source is extracted from the exposure as it
\* is now and added, scaled, to the target's pixels in the exposure
makeImage_amplifierAddCT ==
  /\ mockPc.at = "crosstalk"
  /\ LET idxS == mockPc.idxS
         idxT == mockPc.idxT
         ampDataT == ampData[idxT]
         outAmp == extractAmp(ampData, idxS, idxT)
         added == amplifierAddCT(outAmp, ampDataT, Coeff(idxS, idxT))
     IN  /\ ampData' = [ampData EXCEPT ![idxT] = added]
         /\ ctApplied' = [ctApplied EXCEPT ![<<idxS, idxT>>] =
                            <<[i \in 1..AmpWidth |-> RSub(added[i], ampDataT[i])]>>]
         /\ mockPc' = NextPair(idxS, idxT)
  /\ UNCHANGED <<stageVars, runVars, instances, container, mockAmp, doAddCrosstalk, ctBefore>>

MockNext ==
  \/ makeImage_amplifier
  \/ makeImage_crosstalk
  \/ makeImage_amplifierAddCT

MockSpec == MockInit /\ [][MockNext]_vars

\* ========================================================= IsrTaskLSST.run
\* the input exposure and at most one amplifier with a nan gain
RunInit ==
  /\ StagesIdle
  /\ instances = NoInstances
  /\ container = NoContainer
  /\ mockAmp = NoMockAmp
  /\ doAddCrosstalk = FALSE
  /\ \E level \in MockLevels : ampData = MockImage(level)
  /\ mockPc = At("done", 0, 0)
  /\ ctBefore = ampData
  /\ ctApplied = NotApplied
  /\ \E bad \in Amps \cup {-1} : ptcGain = PtcGain(bad)
  /\ ampMask = NoMask
  /\ badAmps = {}
  /\ runPc = At("idle", 0, 0)
  /\ runLog = <<>>

\* the amplifier a loop over the detector visits after idx, or the next step
NextAmp(at, idx, then) == IF idx + 1 < NAmp THEN At(at, idx + 1, 0) ELSE At(then, 0, 0)

run_begin ==
  /\ runPc.at = "idle"
  /\ runPc' = At("checkGain", 0, 0)
  /\ UNCHANGED <<stageVars, mockVars, instances, container, mockAmp, ptcGain, ampMask, badAmps, runLog>>

\* an amplifier whose gain is not finite is bad: it is masked BAD as a whole
\* and a warning is logged
run_checkGain ==
  /\ runPc.at = "checkGain"
  /\ LET amp == runPc.idxS
     IN  IF IsFinite(ptcGain[amp])
         THEN UNCHANGED <<ampMask, badAmps, runLog>>
         ELSE /\ ampMask' = maskAmplifier(ampMask, amp, "BAD")
              /\ badAmps' = badAmps \cup {amp}
              /\ runLog' = Append(runLog, <<"Amplifier", amp, "is bad (non-finite gain)">>)
  /\ runPc' = NextAmp("checkGain", runPc.idxS, "gainNormalize")
  /\ UNCHANGED <<stageVars, mockVars, instances, container, mockAmp, ptcGain>>

run_gainNormalize ==
  /\ runPc.at = "gainNormalize"
  /\ ampData' = gainNormalize(ampData, runPc.idxS, ptcGain[runPc.idxS])
  /\ runPc' = NextAmp("gainNormalize", runPc.idxS, "crosstalkBegin")
  /\ UNCHANGED <<stageVars, instances, container, mockAmp, doAddCrosstalk, mockPc, ctBefore, ctApplied,
                 ptcGain, ampMask, badAmps, runLog>>

\* the sources of the crosstalk correction are a copy made before the pass
run_crosstalkBegin ==
  /\ runPc.at = "crosstalkBegin"
  /\ ctBefore' = ampData
  /\ runPc' = At("crosstalk", 0, 0)
  /\ UNCHANGED <<stageVars, instances, container, mockAmp, doAddCrosstalk, ampData, mockPc, ctApplied,
                 ptcGain, ampMask, badAmps, runLog>>

run_crosstalk ==
  /\ runPc.at = "crosstalk"
  /\ ampData' = subtractCrosstalk(ampData, ctBefore, runPc.idxS, runPc.idxT,
                                  TestCoeff(runPc.idxS, runPc.idxT), badAmps)
  /\ runPc' = LET next == NextPair(runPc.idxS, runPc.idxT)
              IN  IF next.at = "done" THEN At("maskDefects", 0, 0) ELSE next
  /\ UNCHANGED <<stageVars, instances, container, mockAmp, doAddCrosstalk, mockPc, ctBefore, ctApplied,
                 ptcGain, ampMask, badAmps, runLog>>

run_maskDefects ==
  /\ runPc.at = "maskDefects"
  /\ ampMask' = maskDefects(ampMask)
  /\ runPc' = At("returned", 0, 0)
  /\ UNCHANGED <<stageVars, mockVars, instances, container, mockAmp, ptcGain, badAmps, runLog>>

RunNext ==
  \/ run_begin
  \/ run_checkGain
  \/ run_gainNormalize
  \/ run_crosstalkBegin
  \/ run_crosstalk
  \/ run_maskDefects

RunSpec == RunInit /\ [][RunNext]_vars

\* ================================================== the mocks and their container
\* get calls on one MockDataContainer, and the data-product mocks made and run
\* by themselves
MaxGets == 3
DefaultMockConfigs ==
  {DefaultMockConfig(addFlat, addGain, darkTime) :
     addFlat \in BOOLEAN, addGain \in BOOLEAN, darkTime \in {R(1), R(5)}}

Container(fresh, config) ==
  [fresh |-> fresh, config |-> config, gets |-> 0, dataType |-> "none",
   used |-> <<>>, result |-> Product("None")]

ContainerInit ==
  /\ StagesIdle
  /\ MockIdle
  /\ RunIdle
  /\ instances = NoInstances
  /\ mockAmp = NoMockAmp
  /\ \E fresh \in DefaultMockConfigs, given \in BOOLEAN :
       container = Container(fresh, IF given THEN <<fresh>> ELSE <<>>)

containerFrame == <<stageVars, mockVars, runVars, instances, mockAmp>>

\* MockDataContainer.get(dataType)
Get(dataType) ==
  /\ container # NoContainer
  /\ container.gets < MaxGets
  /\ LET got == MockDataContainer_get(container.config, container.fresh, dataType)
     IN  container' = [container EXCEPT !.config = got.config,
                                        !.gets = @ + 1,
                                        !.dataType = dataType,
                                        !.used = got.used,
                                        !.result = got.result]
  /\ UNCHANGED containerFrame

\* a mock class made with a config of its own and run
MockRun(class, config) ==
  /\ container # NoContainer
  /\ container.gets < MaxGets
  /\ container' = [container EXCEPT !.gets = @ + 1,
                                    !.dataType = class,
                                    !.used = <<config>>,
                                    !.result = run(config)]
  /\ UNCHANGED containerFrame

\* a caller asks the container for any data type
container_get == \E dataType \in DataTypes : Get(dataType)

BfKernelMock_run == MockRun("BfKernelMock", BfKernelMock(container.fresh))
DefectMock_run == MockRun("DefectMock", DefectMock(container.fresh))
CrosstalkCoeffMock_run == MockRun("CrosstalkCoeffMock", CrosstalkCoeffMock(container.fresh))
TransmissionMock_run == MockRun("TransmissionMock", TransmissionMock(container.fresh))

ContainerNext ==
  \/ container_get
  \/ BfKernelMock_run
  \/ DefectMock_run
  \/ CrosstalkCoeffMock_run
  \/ TransmissionMock_run

ContainerSpec == ContainerInit /\ [][ContainerNext]_vars

\* ================================================ two callers, one policy
\* Two callers run the stages of IsrStages.py, each on an Exposure of its own,
\* with the calibration frames and the policy object in common.  A stage is one
\* step, but for CrRejection, which writes the gain into the policy and later
\* hands the policy to findCosmicRays.
Instances == {1, 2}
InstanceGains == {R(1), R(2)}
InstanceProgram ==
  <<"ExposureFromInputData", "TrimNew", "SaturationCorrection", "BiasCorrection",
    "CrRejection.set", "CrRejection.findCosmicRays">>

InstanceMetadata(gain) == [RawMetadata EXCEPT !["gain"] = Present(gain)]
Instance(image, gain) ==
  [image |-> image, gain |-> gain, exposure |-> None, at |-> InstanceProgram[1]]

\* the statement after `at`, or where an exception or a skipped stage lead
InstanceAfter(at, outcome) ==
  LET i == CHOOSE j \in 1..Len(InstanceProgram) : InstanceProgram[j] = at
  IN  IF outcome = "raised" THEN "raised"
      ELSE IF outcome = "skipped" /\ at = "CrRejection.set" THEN "done"
      ELSE IF i = Len(InstanceProgram) THEN "done"
      ELSE InstanceProgram[i + 1]

\* what statement `at` of a caller does to its Exposure and to the policy
InstanceStep(inst, pol) ==
  LET e == inst.exposure[1]
      md == InstanceMetadata(inst.gain)
      keep(res) == [outcome |-> res.outcome, exposure |-> Some(res.exposure), policy |-> pol]
  IN  IF inst.at = "ExposureFromInputData"
      THEN LET res == ExposureFromInputData(inst.image, md, md)
           IN  [outcome |-> res.outcome, exposure |-> res.exposure, policy |-> pol]
      ELSE IF inst.at = "TrimNew"
      THEN LET res == TrimNew(e, pol, clock)
           IN  [outcome |-> res.outcome, exposure |-> res.value, policy |-> pol]
      ELSE IF inst.at = "SaturationCorrection"
      THEN keep(SaturationCorrection(e, pol, FALSE, clock))
      ELSE IF inst.at = "BiasCorrection"
      THEN keep(BiasCorrection(e, bias, pol, clock))
      ELSE IF inst.at = "CrRejection.set"
      THEN LET res == CrRejection_set(e, pol)
           IN  [outcome |-> res.outcome, exposure |-> Some(res.exposure),
                policy |-> res.policy]
      ELSE LET res == CrRejection_findCosmicRays(e, pol, TRUE, clock)
           IN  [outcome |-> res.outcome, exposure |-> Some(res.exposure),
                policy |-> res.policy]

\* the callers after caller k has run a statement that left it `exposure`
InstancesAfter(k, exposure, outcome) ==
  [instances EXCEPT ![k] =
     [@ EXCEPT !.exposure = exposure, !.at = InstanceAfter(instances[k].at, outcome)]]

\* what no step of a caller touches
instanceFrame == <<inputImage, inputMetadata, inputExposure, calibratedExposure,
                   trimReturned, view, frames, clock, calls, last, procVars, module,
                   mockVars, runVars, container, mockAmp>>

instance_ExposureFromInputData ==
  /\ instances # NoInstances
  /\ \E k \in Instances :
       /\ instances[k].at = "ExposureFromInputData"
       /\ LET md == InstanceMetadata(instances[k].gain)
              res == ExposureFromInputData(instances[k].image, md, md)
          IN  instances' = InstancesAfter(k, res.exposure, res.outcome)
  /\ UNCHANGED <<policy, instanceFrame>>

instance_TrimNew ==
  /\ instances # NoInstances
  /\ \E k \in Instances :
       /\ instances[k].at = "TrimNew"
       /\ LET res == TrimNew(instances[k].exposure[1], policy, clock)
          IN  instances' = InstancesAfter(k, res.value, res.outcome)
  /\ UNCHANGED <<policy, instanceFrame>>

instance_SaturationCorrection ==
  /\ instances # NoInstances
  /\ \E k \in Instances :
       /\ instances[k].at = "SaturationCorrection"
       /\ LET res == SaturationCorrection(instances[k].exposure[1], policy, FALSE, clock)
          IN  instances' = InstancesAfter(k, Some(res.exposure), res.outcome)
  /\ UNCHANGED <<policy, instanceFrame>>

instance_BiasCorrection ==
  /\ instances # NoInstances
  /\ \E k \in Instances :
       /\ instances[k].at = "BiasCorrection"
       /\ LET res == BiasCorrection(instances[k].exposure[1], bias, policy, clock)
          IN  instances' = InstancesAfter(k, Some(res.exposure), res.outcome)
  /\ UNCHANGED <<policy, instanceFrame>>

instance_CrRejection_set ==
  /\ instances # NoInstances
  /\ \E k \in Instances :
       /\ instances[k].at = "CrRejection.set"
       /\ LET res == CrRejection_set(instances[k].exposure[1], policy)
          IN  /\ instances' = InstancesAfter(k, Some(res.exposure), res.outcome)
              /\ policy' = res.policy
  /\ UNCHANGED instanceFrame

instance_CrRejection_findCosmicRays ==
  /\ instances # NoInstances
  /\ \E k \in Instances :
       /\ instances[k].at = "CrRejection.findCosmicRays"
       /\ LET res == CrRejection_findCosmicRays(instances[k].exposure[1], policy,
                                                TRUE, clock)
          IN  instances' = InstancesAfter(k, Some(res.exposure), res.outcome)
  /\ UNCHANGED <<policy, instanceFrame>>

ConcInit ==
  /\ InitWith(Policy)
  /\ container = NoContainer
  /\ mockAmp = NoMockAmp
  /\ module = "IsrStages"
  /\ \E images \in [Instances -> InputImages], gains \in [Instances -> InstanceGains] :
       instances = [k \in Instances |-> Instance(images[k], gains[k])]

ConcNext ==
  \/ instance_ExposureFromInputData
  \/ instance_TrimNew
  \/ instance_SaturationCorrection
  \/ instance_BiasCorrection
  \/ instance_CrRejection_set
  \/ instance_CrRejection_findCosmicRays

ConcSpec == ConcInit /\ [][ConcNext]_vars

\* the Exposure a caller ends with when it runs its stages with nobody else
\* about: every statement in turn, from the policy as configured
RECURSIVE RunAlone(_, _)
RunAlone(inst, pol) ==
  IF inst.at \in {"done", "raised"} THEN inst
  ELSE LET res == InstanceStep(inst, pol)
       IN  RunAlone([inst EXCEPT !.exposure = res.exposure,
                                 !.at = InstanceAfter(inst.at, res.outcome)],
                    res.policy)

\* ==================================================================== claims
\* the Exposure the last call worked on, before and after it
Before == last.before[1]
After == IF last.fn \in {"TrimNew", "trimNew"} THEN inputExposure[1] ELSE Target[1]
Ran(fns) == last.fn \in fns /\ last.outcome = "returned"
SamePlanes(a, b) == a.image = b.image /\ a.mask = b.mask /\ a.variance = b.variance

\* C5: every Exposure there is, the one constructed from the input data and the
\* one a trim call returned, after every call has image, mask and variance
\* planes of the same pixel dimensions.
PlaneShapeInvariant ==
  \A e \in {inputExposure, calibratedExposure} :
    e # None => /\ Len(e[1].image) = Len(e[1].mask)
                /\ Len(e[1].mask) = Len(e[1].variance)

\* a trim call returned a new Exposure smaller than its input
PlaneShapeWitness ==
  /\ Ran({"trimNew"})
  /\ calibratedExposure # None
  /\ Len(calibratedExposure[1].variance) = DataWidth
  /\ Len(inputExposure[1].variance) = RawWidth

\* C6: after a bias correction that ran, every pixel of the image is the pixel
\* before minus the bias frame's pixel, the bias frame unscaled.
BiasSubtraction ==
  Ran({"BiasCorrection", "biasCorrection"}) =>
    \A i \in Pixels(After) : After.image[i] = RSub(Before.image[i], bias.image[i])

\* C7: after a dark correction that ran, every pixel of the image is the pixel
\* before minus the dark frame's pixel times the exposure's exposure time over
\* the dark frame's, each read from its own metadata.
DarkSubtraction ==
  Ran({"DarkCorrection"}) =>
    LET scale == RDiv(get(Before.metadata, "EXPTIME"), get(dark.metadata, "EXPTIME"))
    IN  \A i \in Pixels(After) :
          After.image[i] = RSub(Before.image[i], RMul(dark.image[i], scale))

\* exposure 10 s, dark 5 s: a pixel with dark value d went down by 2*d
DarkSubtractionWitness ==
  /\ Ran({"DarkCorrection"})
  /\ get(Before.metadata, "EXPTIME") = R(10)
  /\ get(dark.metadata, "EXPTIME") = R(5)
  /\ RSub(Before.image[1], After.image[1]) = RMul(R(2), dark.image[1])
  /\ ~RIsZero(dark.image[1])

\* C8: after a flat correction with the MEAN scaling that ran, every pixel of
\* the image is the pixel before times the mean m of the flat's image, divided
\* by the flat's pixel.
FlatDivisionMean ==
  (Ran({"flatCorrection"}) /\ last.args[1] = "MEAN") =>
    LET m == RDiv(SumSeq(flat.image), R(Len(flat.image)))
    IN  \A i \in Pixels(After) :
          After.image[i] = RDiv(RMul(Before.image[i], m), flat.image[i])

\* C9: the call that uses the gain g, the construction of the Exposure, leaves
\* every pixel of the variance plane at the input image's pixel divided by g,
\* once; the image plane is the input image, or, where the two planes share
\* their pixels, the same values as the variance plane.
Constructed == Ran({"ExposureFromInputData", "exposureFromInputData"})
InputGainValue == get(inputMetadata, "gain")
GainNormalization ==
  Constructed =>
    \A i \in Pixels(After) :
      /\ After.variance[i] = RDiv(inputImage[i], InputGainValue)
      /\ After.image[i] = IF After.shared THEN After.variance[i] ELSE inputImage[i]

\* an Exposure was constructed with gain 2 and planes of their own
GainNormalizationWitness ==
  /\ Constructed
  /\ InputGainValue = R(2)
  /\ ~After.shared
  /\ After.image[1] = RMul(R(2), After.variance[1])

\* C9 as stated: the call that uses the gain divides the image by g and the
\* variance (before the division a copy of the image) by g squared.
GainNormalizationAsStated ==
  Constructed =>
    \A i \in Pixels(After) :
      /\ After.image[i] = RDiv(inputImage[i], InputGainValue)
      /\ After.variance[i] = RDiv(inputImage[i], RMul(InputGainValue, InputGainValue))

\* C10: on an Exposure whose planes have their own pixels the overscan offset
\* leaves the variance unchanged, bias subtraction adds the bias frame's
\* variance, dark subtraction adds the dark frame's variance times the square
\* of the dark scale, and flat division takes the variance to the variance
\* before times k squared (k the factor the image pixel was scaled by) plus the
\* flat's variance times the square of the new image pixel over the flat
\* pixel; where the planes share their pixels the variance is the image.
OverscanFns == {"OverscanCorrection", "overscanCorrection"}
BiasFns == {"BiasCorrection", "biasCorrection"}
DarkFns == {"DarkCorrection", "darkCorrection"}
FlatFns == {"FlatCorrection", "flatCorrection"}
Sq(x) == RMul(x, x)
VariancePropagation ==
  Ran(OverscanFns \cup BiasFns \cup DarkFns \cup FlatFns) =>
    \A i \in Pixels(After) :
      IF Before.shared THEN After.variance[i] = After.image[i]
      ELSE /\ Ran(OverscanFns) => After.variance[i] = Before.variance[i]
           /\ Ran(BiasFns) =>
                After.variance[i] = RAdd(Before.variance[i], bias.variance[i])
           /\ Ran(DarkFns) =>
                After.variance[i] =
                  RAdd(Before.variance[i],
                       RMul(Sq(RDiv(get(inputMetadata, "EXPTIME"),
                                    get(dark.metadata, "EXPTIME"))),
                            dark.variance[i]))
           /\ (Ran(FlatFns) /\ ~RIsZero(Before.image[i])) =>
                RMul(After.variance[i], Sq(Before.image[i])) =
                  RAdd(RMul(Before.variance[i], Sq(After.image[i])),
                       RMul(RMul(flat.variance[i], Sq(RDiv(After.image[i], flat.image[i]))),
                            Sq(Before.image[i])))

\* a dark frame with variance 1 was subtracted with scale 2: the variance
\* went up by 4
VariancePropagationWitness ==
  /\ Ran({"darkCorrection"})
  /\ ~Before.shared
  /\ dark.variance[1] = R(1)
  /\ After.variance[1] = RAdd(Before.variance[1], R(4))

\* C10 as stated: overscan, bias and dark correction leave the variance plane
\* unchanged, and flat division scales it by the square of the factor the image
\* pixel was scaled by.
VariancePropagationAsStated ==
  /\ Ran(OverscanFns \cup BiasFns \cup DarkFns) => After.variance = Before.variance
  /\ Ran(FlatFns) =>
       \A i \in Pixels(After) :
         ~RIsZero(Before.image[i]) =>
           RMul(After.variance[i], Sq(Before.image[i])) =
             RMul(Before.variance[i], Sq(After.image[i]))

\* the signature key of a stage, under either module's name for it
SigOf(fn) ==
  CASE fn \in {"Linearization", "linearization"} -> ISR_LIN
    [] fn \in OverscanFns -> ISR_OSCAN
    [] fn \in {"TrimNew", "trimNew"} -> ISR_TRIM
    [] fn \in {"SaturationCorrection", "saturationCorrection"} -> ISR_SAT
    [] fn \in BiasFns -> ISR_BIAS
    [] fn \in DarkFns -> ISR_DARK
    [] fn \in FlatFns -> ISR_DFLAT
    [] fn \in {"IlluminationCorrection", "illuminationCorrection"} -> ISR_ILLUM
    [] fn \in {"MaskBadPixelsDef", "maskBadPixelsDef"} -> ISR_BADP
    [] fn \in {"CrRejection", "crRejection"} -> ISR_CRREJ

\* the correction stages of the claim, as IsrStages.py and as Isr.py name them
CorrectionStages ==
  {"Linearization", "OverscanCorrection", "SaturationCorrection", "BiasCorrection",
   "DarkCorrection", "FlatCorrection", "MaskBadPixelsDef", "CrRejection"}
CorrectionFunctions ==
  {"linearization", "overscanCorrection", "saturationCorrection", "biasCorrection",
   "darkCorrection", "flatCorrection", "maskBadPixelsDef", "crRejection"}

\* the second of two calls in a row of one of `fns` with the same inputs, the
\* first of which ended in one of `firsts`, left the planes and the marker as
\* the first call had left them
AtMostOnce(fns, firsts) ==
  (last.fn \in fns /\ last.repeat /\ last.first \in firsts /\ last.before # None) =>
    /\ SamePlanes(After, Before)
    /\ After.metadata[SigOf(last.fn)] = Before.metadata[SigOf(last.fn)]
\* a bias, dark or flat call of `fns` that found its marker returned at once
\* and changed nothing
NoOpWhenMarked(fns) ==
  (last.fn \in fns \cap (BiasFns \cup DarkFns \cup FlatFns) /\ last.before # None) =>
    (exists(Before.metadata, SigOf(last.fn)) =>
       last.outcome = "skipped" /\ After = Before)

\* C1: for every correction stage of IsrStages.py (Linearization,
\* OverscanCorrection, SaturationCorrection, BiasCorrection, DarkCorrection,
\* FlatCorrection, MaskBadPixelsDef, CrRejection) the second of two calls in a
\* row with the same inputs, the first of which returned, leaves image, mask
\* and variance as the first call left them and the marker with the value and
\* timestamp the first call wrote; BiasCorrection, DarkCorrection and
\* FlatCorrection called with their marker in the metadata return at once and
\* change nothing.
StageAtMostOnce ==
  /\ AtMostOnce(CorrectionStages, {"returned", "skipped"})
  /\ NoOpWhenMarked(CorrectionStages)

\* BiasCorrection was called twice in a row: the second call found the marker
StageAtMostOnceWitness ==
  /\ last.fn = "BiasCorrection"
  /\ last.repeat
  /\ last.first = "returned"
  /\ last.outcome = "skipped"
  /\ exists(After.metadata, ISR_BIAS)
  /\ get(After.metadata, ISR_BIAS)[3] < last.asctime

\* C1 as stated: the same of every correction stage, the functions of Isr.py
\* included.
AtMostOnceAsStated ==
  /\ AtMostOnce(CorrectionStages \cup CorrectionFunctions, {"returned", "skipped", "raised"})
  /\ NoOpWhenMarked(CorrectionStages \cup CorrectionFunctions)

\* the stage functions of IsrStages.py that write a marker
StampingStages == StageFunctions \ {"ExposureFromInputData"}
Stamped(fn) ==
  /\ exists(After.metadata, SigOf(fn))
  /\ LET value == get(After.metadata, SigOf(fn))
     IN  /\ Len(value) = 3
         /\ value[1] # <<>>
         /\ value[2] = "; "
         /\ value[3] = last.asctime
MarkerUntouched(fn) == After.metadata[SigOf(fn)] = Before.metadata[SigOf(fn)]

\* C4: after a call of a stage function of IsrStages.py that ran its correction
\* and returned normally the metadata maps the stage's signature key to
\* "<summary>; <timestamp>" with the time of that call; after a call that
\* raised, the key is as it was before the call; the functions of Isr.py write
\* no marker at all.
ProvenanceStamping ==
  /\ Ran(StampingStages) => Stamped(last.fn)
  /\ (last.fn \in StampingStages /\ last.outcome = "raised" /\ last.before # None) =>
       MarkerUntouched(last.fn)
  /\ (last.fn \in CorrectionFunctions /\ last.before # None) => MarkerUntouched(last.fn)

\* BiasCorrection ran and left its marker with the time of the call
ProvenanceStampingWitness ==
  /\ Ran({"BiasCorrection"})
  /\ ~exists(Before.metadata, ISR_BIAS)
  /\ get(After.metadata, ISR_BIAS)[3] = last.asctime
  /\ After.image # Before.image

\* C4 as stated: the same of any stage call, the functions of Isr.py included.
ProvenanceStampingAsStated ==
  /\ Ran(StampingStages \cup CorrectionFunctions) => Stamped(last.fn)
  /\ (last.fn \in StampingStages \cup CorrectionFunctions
        /\ last.outcome = "raised" /\ last.before # None) =>
       MarkerUntouched(last.fn)

\* `started` follows `order`: every stage started is in it, and one that
\* started earlier comes earlier in it
Position(order, stage) == CHOOSE i \in 1..Len(order) : order[i] = stage
Follows(order) ==
  /\ \A i \in 1..Len(started) : \E k \in 1..Len(order) : order[k] = started[i]
  /\ \A i, j \in 1..Len(started) :
       i < j => Position(order, started[i]) < Position(order, started[j])

NoRollbackImmediateAbort ==
  /\ last.outcome = "raised" => pc = "raised"
  /\ pc = "raised" =>
       /\ last.outcome = "raised"
       /\ outputQueue = <<>>
       /\ last.fn \in ProcessStages => started[Len(started)] = last.fn
       /\ \A i \in 1..Len(started) :
            started[i] # last.fn => exists(inputExposure[1].metadata, SigOf(started[i]))
       /\ last.before # None =>
            /\ After.image = Before.image
            /\ After.variance = Before.variance
            /\ After.metadata = Before.metadata
            /\ \A i \in Pixels(After) : Before.mask[i] \subseteq After.mask[i]

\* the overscan stage raised after Linearization had completed and changed
\* the image
NoRollbackWitness ==
  /\ pc = "raised"
  /\ started = <<"Linearization", "OverscanCorrection">>
  /\ exists(inputExposure[1].metadata, ISR_LIN)
  /\ inputExposure[1].image # inputImage

\* the fit type an overscan call was made with
FitTypeOf == last.args[1]
OverscanCall == last.fn \in OverscanFns /\ last.before # None

\* C13: an overscan call with a fit type other than MEAN or MEDIAN (POLY,
\* BOGUS) on an Exposure whose metadata holds no overscan marker raises, and
\* the image, the variance and the metadata are as before the call, without
\* an overscan marker; on an Exposure that holds the marker the call returns
\* at once whatever the fit type and changes nothing.
OverscanFitTypeErrors ==
  (OverscanCall /\ FitTypeOf \notin {"MEAN", "MEDIAN"}) =>
    /\ After = Before
    /\ IF exists(Before.metadata, ISR_OSCAN) THEN last.outcome = "skipped"
       ELSE last.outcome = "raised" /\ ~exists(After.metadata, ISR_OSCAN)

\* OverscanCorrection was called with BOGUS on the raw Exposure, whose overscan
\* strip has a mean that is not zero
OverscanFitTypeWitness ==
  /\ last.fn = "OverscanCorrection"
  /\ FitTypeOf = "BOGUS"
  /\ last.outcome = "raised"
  /\ Len(Before.image) = RawWidth
  /\ ~RIsZero(StatMean(SubPlane(Before.image, BBoxFromDatasec(OverscanString))))
  /\ exists(Before.metadata, "overscan")

\* C13 as stated: every overscan call with a fit type other than MEAN or MEDIAN
\* raises, and afterwards the image is unchanged and there is no overscan
\* marker.
OverscanFitTypeErrorsAsStated ==
  (OverscanCall /\ FitTypeOf \notin {"MEAN", "MEDIAN"}) =>
    /\ last.outcome = "raised"
    /\ After.image = Before.image
    /\ ~exists(After.metadata, ISR_OSCAN)

\* the overscan box a call was given: the section in the metadata
\* (OverscanCorrection) or the box the caller passed (overscanCorrection)
OverscanBBoxOf ==
  IF last.fn = "OverscanCorrection"
  THEN BBoxFromDatasec(get(Before.metadata, "overscan"))
  ELSE BBoxFromDatasec(OverscanString)

\* C14: after an overscan call with fit type MEAN (MEDIAN) that ran, every
\* pixel of the whole image, outside the overscan strip as well as inside, is
\* the pixel before minus one offset, the arithmetic mean (the median) of the
\* pixels that were inside the overscan box before the call.
OverscanSubtraction ==
  (Ran(OverscanFns) /\ last.before # None) =>
    LET strip == SubPlane(Before.image, OverscanBBoxOf)
        offset == IF FitTypeOf = "MEAN" THEN RDiv(SumSeq(strip), R(Len(strip)))
                  ELSE StatMedian(strip)
    IN  /\ FitTypeOf \in {"MEAN", "MEDIAN"}
        /\ \A i \in Pixels(After) : After.image[i] = RSub(Before.image[i], offset)

\* a MEDIAN call took the median 5 of a strip whose mean is 4 off a pixel of
\* the data section
OverscanSubtractionWitness ==
  /\ Ran(OverscanFns)
  /\ FitTypeOf = "MEDIAN"
  /\ StatMedian(SubPlane(Before.image, OverscanBBoxOf)) = R(5)
  /\ StatMean(SubPlane(Before.image, OverscanBBoxOf)) = R(4)
  /\ After.image[1] = RSub(Before.image[1], R(5))

\* C15: after IsrStages.OverscanCorrection ran and returned, the
\* overscan-provenance key is in the metadata, set by the call; after
\* Isr.overscanCorrection ran and returned, the key that is absent is the one
\* that names the overscan section (overscanKeyword), and no provenance key
\* has been written.
OverscanKeyAfterwards ==
  /\ Ran({"OverscanCorrection"}) =>
       /\ exists(After.metadata, ISR_OSCAN)
       /\ ~exists(Before.metadata, ISR_OSCAN)
       /\ After.metadata["overscan"] = Before.metadata["overscan"]
  /\ Ran({"overscanCorrection"}) =>
       /\ ~exists(After.metadata, "overscan")
       /\ After.metadata[ISR_OSCAN] = Before.metadata[ISR_OSCAN]

\* overscanCorrection took the section key out of the metadata
OverscanKeyWitness ==
  /\ Ran({"overscanCorrection"})
  /\ exists(Before.metadata, "overscan")
  /\ ~exists(After.metadata, "overscan")
  /\ After.image # Before.image

\* C15 as stated: after an overscan correction that returned normally the
\* overscan-provenance key is absent from the metadata.
OverscanKeyAsStated ==
  (last.fn \in OverscanFns /\ last.outcome \in {"returned", "skipped"}
     /\ last.before # None) =>
    ~exists(After.metadata, ISR_OSCAN)

\* the trim section a trimNew call used (the argument, else the metadata's;
\* <<>> when there is none) and the amplifier box width it was given
TrimsecOf ==
  IF last.args[2] # <<>> THEN last.args[2] ELSE Before.metadata["trimsec"]
ExpectedWidth == last.args[1]

\* C16: a trim call whose trim section has other dimensions than the
\* amplifier box it was given fails with the library's exception
\* (LsstException), returns no trimmed Exposure and leaves the input Exposure
\* and its metadata unchanged.
TrimGeometryCheck ==
  (last.fn = "trimNew" /\ TrimsecOf # <<>>
     /\ BBoxFromDatasec(TrimsecOf[1]).width # ExpectedWidth) =>
    /\ last.outcome = "raised"
    /\ last.error = "LsstException"
    /\ After = Before

\* the Exposure the last trim call returned
Trimmed == calibratedExposure[1]
TrimFns == {"TrimNew", "trimNew"}

\* C17: after Isr.trimNew returned, the metadata of the trimmed Exposure holds
\* no trim-section reference, and its overscan-region reference is as it was
\* before the trim (there unless the overscan correction took it out
\* earlier); after IsrStages.TrimNew returned having trimmed, both references
\* are as they were before the trim.
TrimMetadata ==
  /\ Ran({"trimNew"}) =>
       /\ ~exists(Trimmed.metadata, "trimsec")
       /\ Trimmed.metadata["overscan"] = Before.metadata["overscan"]
  /\ Ran({"TrimNew"}) =>
       /\ Trimmed.metadata["trimsec"] = Before.metadata["trimsec"]
       /\ Trimmed.metadata["overscan"] = Before.metadata["overscan"]

\* trimNew returned a trimmed Exposure whose metadata lost the trim section and
\* kept the overscan section
TrimMetadataWitness ==
  /\ Ran({"trimNew"})
  /\ exists(Before.metadata, "trimsec")
  /\ Len(Trimmed.image) = DataWidth
  /\ ~exists(Trimmed.metadata, "trimsec")
  /\ exists(Trimmed.metadata, "overscan")

\* C17 as stated: after a successful trim the metadata of the trimmed Exposure
\* holds neither an overscan-region reference nor a trim-section reference.
TrimMetadataAsStated ==
  Ran(TrimFns) =>
    /\ ~exists(Trimmed.metadata, "overscan")
    /\ ~exists(Trimmed.metadata, "trimsec")

\* C18: after any sequence of bias, dark, flat and illumination correction
\* calls, of either module, every calibration frame (image, mask, variance and
\* metadata) is as it was loaded: a correction scales a value of its own, never
\* the pixels of the frame.
CalibrationFramesReadOnly ==
  \E v \in CalibrationVariances :
    /\ bias = BiasFrame(v)
    /\ dark = DarkFrame(v)
    /\ flat = FlatFrame(v)
    /\ illum = IllumFrame(v)

\* flatCorrection divided the image by the flat over its mean for the second
\* time, and the flat still has the pixels it was loaded with
CalibrationFramesWitness ==
  /\ Ran({"flatCorrection"})
  /\ last.repeat
  /\ last.args[1] = "MEAN"
  /\ After.image # Before.image
  /\ flat.image = FlatImage
  /\ StatMean(flat.image) # R(1)

\* the pixels of the Exposure a call worked on that lie inside a Defect box of
\* the list the defect stage is given
InDefectBox(i) ==
  \E d \in 1..Len(DefectList) :
    DefectList[d].x0 < i /\ i <= DefectList[d].x0 + DefectList[d].width
DefectFns == {"MaskBadPixelsDef", "maskBadPixelsDef"}

\* C19: after a defect-mask call that set the mask (one that returned having
\* run, or IsrStages.MaskBadPixelsDef with interpolation, which raises after
\* the mask is set), every pixel inside a Defect box has the BAD bit, every
\* bit that was set before the call is still set, and no pixel outside all
\* Defect boxes has gained the BAD bit.
DefectMasking ==
  (last.fn \in DefectFns /\ last.before # None
     /\ (last.outcome = "returned" \/ (last.outcome = "raised" /\ last.args[1]))) =>
    \A i \in Pixels(After) :
      /\ InDefectBox(i) => "BAD" \in After.mask[i]
      /\ Before.mask[i] \subseteq After.mask[i]
      /\ ~InDefectBox(i) => ("BAD" \in After.mask[i] <=> "BAD" \in Before.mask[i])

\* the pixel in the Defect box carried the SAT bit before the call and carries
\* SAT and BAD after it; its neighbour outside the box has no BAD
DefectMaskingWitness ==
  /\ Ran(DefectFns)
  /\ \E i \in Pixels(After) :
       /\ InDefectBox(i)
       /\ "SAT" \in Before.mask[i]
       /\ "BAD" \notin Before.mask[i]
       /\ {"SAT", "BAD"} \subseteq After.mask[i]
  /\ \E i \in Pixels(After) : ~InDefectBox(i) /\ "BAD" \notin After.mask[i]

\* the saturation threshold and the grow margin a saturation call used
SaturationFns == {"SaturationCorrection", "saturationCorrection"}
ThresholdOf ==
  IF last.fn = "SaturationCorrection"
  THEN (IF exists(Before.metadata, "saturate") THEN get(Before.metadata, "saturate")
        ELSE policy.saturationPolicy.defaultSaturation)
  ELSE get(inputMetadata, "saturate")
MarginOf == IF last.fn = "SaturationCorrection" THEN policy.saturationPolicy.growSaturated
            ELSE 0
Exceeded(i) == RLess(ThresholdOf, Before.image[i])

\* C20: after a saturation call that ran, every pixel whose value before the
\* call exceeded the saturation threshold has the SAT bit, and so has every
\* pixel within the configured margin of such a pixel.
SaturationMasking ==
  (Ran(SaturationFns) /\ last.before # None) =>
    \A i \in Pixels(After) :
      (\E j \in Pixels(After) : Exceeded(j) /\ Abs(i - j) <= MarginOf) =>
        "SAT" \in After.mask[i]

\* a pixel below the threshold, next to one above it, was flagged SAT by the
\* grow margin of 1
SaturationMaskingWitness ==
  /\ Ran({"SaturationCorrection"})
  /\ MarginOf = 1
  /\ \E i \in Pixels(After) :
       /\ ~Exceeded(i)
       /\ "SAT" \notin Before.mask[i]
       /\ "SAT" \in After.mask[i]
       /\ \E j \in Pixels(After) : Exceeded(j) /\ Abs(i - j) = 1

\* C11: in one crosstalk pass, what is applied to target T from source S (S
\* other than T) is coeff[S,T] times the pixels source S had before the pass
\* began, for every ordered pair visited: no contribution comes from an
\* amplifier as the same pass has modified it.
CrosstalkSnapshot ==
  \A idxS \in Amps, idxT \in Amps :
    (idxS # idxT /\ ctApplied[<<idxS, idxT>>] # <<>>) =>
      ctApplied[<<idxS, idxT>>][1] =
        [i \in 1..AmpWidth |-> RMul(Coeff(idxS, idxT), ctBefore[idxS][i])]

\* the amplifiers whose gain is nan
NanGainAmps == {a \in Amps : ~IsFinite(ptcGain[a])}
HasBad(a, i) == "BAD" \in ampMask[a][i]

\* C12: when exactly one amplifier has a nan gain, the run comes to its end
\* without failing, and at the end every pixel of that amplifier has the BAD bit
\* while a pixel of any other amplifier has it only inside a defect box, with
\* every crosstalk coefficient between two amplifiers other than zero; no pixel
\* of another amplifier is nan.
NanGainIsolation ==
  /\ runPc.at # "raised"
  /\ (runPc.at = "returned" /\ Cardinality(NanGainAmps) = 1) =>
       \A a \in Amps, i \in 1..AmpWidth :
         IF a \in NanGainAmps THEN HasBad(a, i)
         ELSE /\ HasBad(a, i) <=> InAmpDefect(a, i)
              /\ IsFinite(ampData[a][i])

\* the run ended with amplifier 0 bad, its pixels nan, the warning logged, and
\* amplifier 1 changed by crosstalk from the others and without BAD
NanGainWitness ==
  /\ runPc.at = "returned"
  /\ NanGainAmps = {0}
  /\ \A idxS, idxT \in Amps : idxS # idxT => ~RIsZero(TestCoeff(idxS, idxT))
  /\ ~IsFinite(ampData[0][1])
  /\ Len(runLog) = 1
  /\ IsFinite(ampData[1][1])
  /\ ampData[1][1] # NDiv(MockImage(1)[1][1], GoodGain)
  /\ ampData[1][1] # NDiv(MockImage(2)[1][1], GoodGain)
  /\ ~HasBad(1, 1)
  /\ HasBad(DefectAmp, 1)

\* C21: after a defect or saturation call with interpolation that ran, the
\* mask's dictionary of plane names holds BAD, SAT and INTRP, and holds no name
\* besides the well-known ones: no plane of another spelling was registered
\* for the interpolated pixels.
MaskPlaneNames ==
  (Ran(DefectFns \cup SaturationFns) /\ last.before # None /\ last.args[1]) =>
    /\ {"BAD", "SAT", "INTRP"} \subseteq After.maskPlaneDict
    /\ After.maskPlaneDict \subseteq DefaultMaskPlanes

\* the pixels a defect or saturation call hands to the interpolator, and those
\* of them with no pixel outside the region to interpolate from
BadRegion ==
  IF last.fn \in DefectFns THEN DefectPixels(Before.image, DefectList)
  ELSE GrowPixels(Before.image, AboveThreshold(Before.image, ThresholdOf), MarginOf)
Unfillable == {i \in BadRegion : Interpolated(Before.image, BadRegion, i) = <<>>}
InterpolatingCall ==
  /\ last.fn \in DefectFns \cup SaturationFns
  /\ last.before # None
  /\ last.outcome \in {"returned", "raised"}
  /\ last.args[1]

\* C22: after a defect or saturation call with interpolation, every pixel of a
\* region the interpolator could not fill has the clipped mean of the image as
\* it was handed to the stage.
InterpolationFallback ==
  InterpolatingCall =>
    \A i \in Unfillable : After.image[i] = StatMeanClip(Before.image)

\* C23: with two callers at work on an Exposure each and the calibration
\* frames and the policy in common, in every interleaving of their steps a
\* caller that has ended holds the Exposure (image, mask, variance, metadata)
\* it ends with when it runs alone, and the policy is as it was configured: no
\* stage has written a value of its Exposure into it.
NoInterference ==
  instances # NoInstances =>
    /\ \A k \in Instances :
         instances[k].at = "done" =>
           instances[k].exposure =
             RunAlone(Instance(instances[k].image, instances[k].gain), Policy).exposure
    /\ policy = Policy

\* the data-product mock classes and the product each is documented to make
DataMocks ==
  [BfKernelMock |-> "bfKernel", DefectMock |-> "defectList",
   CrosstalkCoeffMock |-> "crosstalkCoeffs", TransmissionMock |-> "transmissionCurve"]
DataFlags == {"doBrighterFatter", "doDefects", "doTransmissionCurve", "doCrosstalkCoeffs"}
RanDataMock == container # NoContainer /\ container.dataType \in DOMAIN DataMocks

\* C24: a data-product mock class that was made and run has exactly one of the
\* four data-product flags set in its config, and run() returned the product
\* the class is documented to make, without raising.
DataMockOneProduct ==
  RanDataMock =>
    /\ Cardinality({f \in DataFlags : container.used[1][f]}) = 1
    /\ container.result = Product(DataMocks[container.dataType])

\* the config get(dataType) builds its product with on a container nothing has
\* been asked of yet
FreshUsed(dataType) == MockDataContainer_get(<<>>, container.fresh, dataType).used
GotFromMock ==
  container # NoContainer /\ container.dataType \in DataTypes /\ container.used # <<>>

\* C30: the config a get call of a MockDataContainer built its product with is
\* the config the same call uses on a fresh container, whatever was asked of
\* the container before; and the container's config never has doGenerateImage
\* and doGenerateData both true.
HistoryIndependence ==
  /\ GotFromMock => container.used = FreshUsed(container.dataType)
  /\ (container # NoContainer /\ container.config # <<>>) =>
       ~(container.config[1].doGenerateImage /\ container.config[1].doGenerateData)

\* C25: with doAddGain, when the loop over the amplifiers has ended the pixels
\* of every amplifier's data region in the exposure are the electron signal
\* accumulated for it divided by config.gain.
MockGainInExposure ==
  (mockAmp # NoMockAmp /\ mockAmp.doAddGain /\ mockPc.at = "step4") =>
    \A a \in Amps : ampData[a] = ImageDividedBy(mockAmp.electrons[a][1], mockAmp.gain)

\* C26: a call of a stage function of IsrStages.py that ended, returning or
\* raising, with its provenance marker absent from the Exposure has left the
\* image, mask and variance planes as they were before the call.
MarkerMatchesPixels ==
  (last.fn \in StampingStages /\ last.before # None
     /\ ~exists(After.metadata, SigOf(last.fn))) =>
    SamePlanes(After, Before)

\* the stage calls of both modules that work on one Exposure
ExposureCalls == StampingStages \cup CorrectionFunctions \cup {"trimNew"}

\* the section keyword a function of Isr.py takes out of the metadata once it
\* has used it (Isr.overscanCorrection, Isr.trimNew)
Consumed(fn) ==
  CASE fn = "overscanCorrection" -> {"overscan"}
    [] fn = "trimNew" -> {"trimsec"}
    [] OTHER -> {}

\* no marker that was there before the call has changed, and no entry but
\* those of `own` has changed
MetadataKept(own) ==
  /\ \A sig \in StageSigs :
       exists(Before.metadata, sig) => After.metadata[sig] = Before.metadata[sig]
  /\ \A key \in MetaKeys \ own : After.metadata[key] = Before.metadata[key]

\* C27 as stated: a stage call on one Exposure, of either module, leaves every
\* marker that is present as it is and changes no metadata entry but the one
\* of the stage's own signature key.
MarkersWriteOnceAsStated ==
  (last.fn \in ExposureCalls /\ last.before # None) => MetadataKept({SigOf(last.fn)})

\* C27: a stage call on one Exposure leaves every marker that is present as
\* it is; a stage function of IsrStages.py changes no metadata entry but the
\* one of its own signature key; a function of Isr.py writes no marker and
\* changes no entry but the section keyword it consumed (the overscan
\* keyword in overscanCorrection, the trim-section keyword in trimNew).
MarkersWriteOnce ==
  (last.fn \in ExposureCalls /\ last.before # None) =>
    IF last.fn \in StageFunctions
    THEN MetadataKept({SigOf(last.fn)})
    ELSE MetadataKept(Consumed(last.fn))

\* a stage function wrote its own marker next to one an earlier stage wrote
MarkersWriteOnceWitness ==
  /\ Ran({"DarkCorrection"})
  /\ exists(Before.metadata, ISR_BIAS)
  /\ ~exists(Before.metadata, ISR_DARK)
  /\ exists(After.metadata, ISR_DARK)
  /\ exists(After.metadata, "filename")

\* C28: after a call of IsrStages.TrimNew that did not raise, the caller holds
\* a trimmed Exposure, also when the input Exposure carried the trim marker.
TrimReturnsExposure ==
  (last.fn = "TrimNew" /\ last.before # None /\ last.outcome # "raised") =>
    calibratedExposure # None

\* the same for the first trim of an Exposure (no marker before the call)
TrimReturnsExposureFirst ==
  (last.fn = "TrimNew" /\ last.before # None /\ last.outcome # "raised"
     /\ ~exists(Before.metadata, ISR_TRIM)) =>
    calibratedExposure # None

\* C29: a call of process eventually has run every statement to the end with
\* one clipboard carrying 'calibratedExposure' in the output queue, and the
\* output queue never holds more than one.
PipelineCompletion ==
  /\ <>(pc = "done" /\ Len(outputQueue) = 1
          /\ outputQueue[1].calibratedExposure # None)
  /\ [](Len(outputQueue) <= 1)

\* no run of process reaches its end, whatever the harness resolves the
\* unbound names to, and nothing is ever added to the output queue
ProcessNeverCompletes == pc # "done" /\ outputQueue = <<>>

\* a run came as far as the defect masking and was left there
ProcessLeftAtDefects ==
  pc = "raised" /\ last.fn = "MaskBadPixelsDef" /\ Len(started) = 8
====
